---- MODULE Spec2Model ----
(***************************************************************************)
(* Job registry, index update engine and batch classification engine of    *)
(* the comment-categorizer backend (backend/app).                          *)
(*                                                                         *)
(* One asyncio event loop runs the request handlers and the background     *)
(* tasks: the code between two awaits is one action.  The bodies of        *)
(* _generate_index_sync and _update_index_sync run on an executor thread   *)
(* and interleave with the event loop statement by statement.              *)
(***************************************************************************)
EXTENDS Integers, Sequences, FiniteSets, TLC

\* ---------------------------------------------------------------- bounds
MaxJobs == 2            \* job records (and creation requests) of a run
NumOwners == 2          \* users
MaxTokens == 3          \* number+unit tokens of a duration string
MaxPolls == 3           \* polls of one status notifier
NumBatches == 2         \* embedding batches (slices of batch_size rows) of a source file
MaxRestarts == 1        \* process restarts of a run
MaxItems == 5           \* input items of a classification run
reviews_per_batch == 2  \* items per batch of a classification run
max_concurrent_batches == 2   \* permits of the batch semaphore
\* process_reviews_in_batches_async: retries granted to a batch (default)
max_attempts == 3

JobIds == 1..MaxJobs
Owners == 1..NumOwners
Kinds == {"index", "review"}
Modes == {"add", "replace"}

Active == {"pending", "processing"}
Terminal == {"completed", "failed", "cancelled"}

\* error texts stored on a job ("" stands for None)
ErrUser == "cancelled by user"
ErrRestart == "interrupted by restart"
ErrExc == "exception"
ErrNotFound == "not found"
ErrNoIndex == "index not found"
ErrOpFailed == "operation failed"

\* file contents: the sequence of document slices a file holds
Absent == << >>
Truncated == << -1 >>
PriorDocs == << 0 >>
NewDocs(j) == [b \in 1..NumBatches |-> 10 * j + b]
NoRec == [exists |-> FALSE, reviews_included |-> 0]

VARIABLES
    \* persisted job store (IndexJob / ReviewJob rows)
    status, error, kind, owner, mode,
    \* creation requests in flight
    req,
    \* background tasks
    pc, cancel_requested, operation_success, error_msg, killReq, killed,
    \* in-memory registry running_retrievers / running_review_jobs
    running,
    \* cancel endpoint invocations in flight
    cx,
    \* disk: final index/cache pair and the IndexRecord of the target
    fIndex, fCache, rec,
    \* disk: per job scratch (index_job_*, temp_index_*) and snapshot files
    temp_dir, jobIdx, jobCache, gen_dir, genIdx, genCache,
    snapshot_dir, snapIdx, snapCache,
    \* retriever of a job: in-memory index and documents, loop position
    memIndex, memDocs, bi, gtarget, gphase, branch,
    \* status notifier connections
    ws,
    \* history
    restarts, cancelSeen, pendingCancelled, pre, raisedOnCancel, raisedAt,
    \* a classification job's retriever loading the final pair
    rd,
    \* batch classification engine: input, wrapper invocations, retry queue,
    \* StatusTracker, gathered results, returned results, position of
    \* process_reviews_in_batches_async, batches that ran out of attempts
    items, w, retry_queue, status_tracker, batch_results, results, mpc, exhausted, catFailed, sent,
    \* the source review of a submission (its row, its file on disk) and the
    \* position of each submission in the endpoint's validations
    src, val,
    \* one invocation of OpenAILLM._call_api_with_retry
    api,
    \* the polling loop of the status notifier of each job id: the last status
    \* it sent, the messages it sent, the polls it made
    nt,
    \* the progress column of the ReviewJob rows
    progress

jobVars == <<status, error, kind, owner, mode>>
taskVars == <<pc, cancel_requested, operation_success, error_msg, killReq, killed>>
diskVars == <<fIndex, fCache, rec>>
scratchVars == <<temp_dir, jobIdx, jobCache, gen_dir, genIdx, genCache,
                 snapshot_dir, snapIdx, snapCache>>
retrVars == <<memIndex, memDocs, bi, gtarget, gphase, branch>>
histVars == <<restarts, cancelSeen, pendingCancelled, pre, raisedOnCancel, raisedAt>>
coreVars == <<jobVars, req, taskVars, running, cx, diskVars, scratchVars,
              retrVars, ws, histVars>>
batchVars == <<items, w, retry_queue, status_tracker, batch_results, results,
               mpc, exhausted, catFailed, sent>>
subVars == <<src, val>>
extVars == <<rd, batchVars, subVars, api, nt, progress>>
vars == <<coreVars, extVars>>

\* the event loop is free: it is not inside the synchronous load of the pair
\* (indexer.py:112-115), during which no other coroutine can take a step
LoopFree == rd.pc # "mid"

\* ------------------------------------------------------------ job store
\* crud/index.py update_job_status: overwrites the status; the error is
\* stored only when one is passed
update_job_status(j, s, e) ==
    /\ status' = [status EXCEPT ![j] = s]
    /\ error' = [error EXCEPT ![j] = IF e # "" THEN e ELSE @]

\* crud/jobs.py update_review_job_status: same shape for ReviewJob rows; the
\* progress argument p ("None" when the caller leaves it out) is accepted,
\* and no statement of lines 107-121 stores it on the row
update_review_job_status(j, s, e, p) ==
    /\ status' = [status EXCEPT ![j] = s]
    /\ error' = [error EXCEPT ![j] = IF e # "" THEN e ELSE @]
    /\ progress' = progress

\* utils/common/test.py get_active_index_job(db): every active IndexJob,
\* whoever owns it
get_active_index_job ==
    {j \in JobIds : kind[j] = "index" /\ status[j] \in Active}

\* crud/jobs.py get_active_review_job(db, user): active ReviewJobs of the user
get_active_review_job(u) ==
    {j \in JobIds : kind[j] = "review" /\ status[j] \in Active /\ owner[j] = u}

FreeIds == {j \in JobIds : status[j] = "none"}

InitJobs ==
    /\ status = [j \in JobIds |-> "none"]
    /\ error = [j \in JobIds |-> ""]
    /\ kind = [j \in JobIds |-> "index"]
    /\ owner = [j \in JobIds |-> 1]
    /\ mode = [j \in JobIds |-> "add"]
    /\ req = [r \in JobIds |-> [pc |-> "idle", kind |-> "index", owner |-> 1, mode |-> "add"]]
    /\ pc = [j \in JobIds |-> "none"]
    /\ cancel_requested = [j \in JobIds |-> FALSE]
    /\ operation_success = [j \in JobIds |-> FALSE]
    /\ error_msg = [j \in JobIds |-> ""]
    /\ killReq = [j \in JobIds |-> FALSE]
    /\ killed = [j \in JobIds |-> FALSE]
    /\ running = {}
    /\ cx = [j \in JobIds |-> "idle"]
    /\ ws = [j \in JobIds |-> "none"]
    /\ restarts = 0
    /\ pendingCancelled = {}
    /\ raisedOnCancel = [j \in JobIds |-> "none"]
    /\ raisedAt = [j \in JobIds |-> [at |-> "none", snap |-> FALSE]]
    /\ cancelSeen = {}

InitScratch ==
    /\ temp_dir = [j \in JobIds |-> FALSE]
    /\ jobIdx = [j \in JobIds |-> Absent]
    /\ jobCache = [j \in JobIds |-> Absent]
    /\ gen_dir = [j \in JobIds |-> 0]
    /\ genIdx = [j \in JobIds |-> Absent]
    /\ genCache = [j \in JobIds |-> Absent]
    /\ snapshot_dir = [j \in JobIds |-> FALSE]
    /\ snapIdx = [j \in JobIds |-> Absent]
    /\ snapCache = [j \in JobIds |-> Absent]
    /\ memIndex = [j \in JobIds |-> Absent]
    /\ memDocs = [j \in JobIds |-> Absent]
    /\ bi = [j \in JobIds |-> 0]
    /\ gtarget = [j \in JobIds |-> "final"]
    /\ gphase = [j \in JobIds |-> "main"]
    /\ branch = [j \in JobIds |-> "none"]
    /\ pre = [j \in JobIds |-> [index |-> Absent, cache |-> Absent, rec |-> NoRec]]

InitNoIndex ==
    /\ fIndex = Absent
    /\ fCache = Absent
    /\ rec = NoRec

InitPriorIndex ==
    /\ fIndex = PriorDocs
    /\ fCache = PriorDocs
    /\ rec = [exists |-> TRUE, reviews_included |-> Len(PriorDocs)]

\* ------------------------------------------------- job creation requests
\* routers/index.py create_or_update_past_reviews_index_endpoint and
\* routers/jobs.py create_review_job_endpoint, first await: the active-job
\* check
CheckActive(r, k, u, m) ==
    /\ LoopFree
    /\ req[r].pc = "idle"
    /\ LET active == IF k = "index" THEN get_active_index_job
                                    ELSE get_active_review_job(u)
       IN req' = [req EXCEPT ![r] = [pc |-> IF active # {} THEN "rejected" ELSE "checked",
                                     kind |-> k, owner |-> u, mode |-> m]]
    /\ UNCHANGED <<jobVars, taskVars, running, cx, diskVars, scratchVars,
                   retrVars, ws, histVars, extVars>>

\* crud/index.py create_index_job / crud/jobs.py create_review_job followed by
\* asyncio.create_task: the row is inserted as pending and the task scheduled
CreateJob(r) ==
    /\ LoopFree
    /\ req[r].pc = "checked"
    /\ FreeIds # {}
    /\ LET j == CHOOSE x \in FreeIds : \A y \in FreeIds : x <= y
       IN /\ status' = [status EXCEPT ![j] = "pending"]
          /\ kind' = [kind EXCEPT ![j] = req[r].kind]
          /\ owner' = [owner EXCEPT ![j] = req[r].owner]
          /\ mode' = [mode EXCEPT ![j] = req[r].mode]
          /\ pc' = [pc EXCEPT ![j] = "created"]
    /\ req' = [req EXCEPT ![r].pc = "created"]
    /\ UNCHANGED <<error, cancel_requested, operation_success, error_msg, killReq,
                   killed, running, cx, diskVars, scratchVars, retrVars, ws, histVars, extVars>>

\* ------------------------------------------------------- shared helpers
Live(j) == pc[j] \notin {"none", "done", "killed", "crashed"}
Ended(j) == IF killed[j] THEN "killed" ELSE "done"
Loadable(f) == f # Absent /\ f # Truncated

\* pcs at which the body of _update_index_sync / _generate_index_sync is
\* running on the executor thread
ThreadPcs == {"a_embed", "a_loop", "a_write_cache",
              "g_embed", "g_loop", "g_write_cache"}

\* history: an exception is raised in the task of j; was cancellation
\* requested by then
NoteRaise(j) ==
    /\ raisedOnCancel' = [raisedOnCancel EXCEPT
                            ![j] = IF cancel_requested[j] THEN "flagged" ELSE "unflagged"]
    \* where it was raised, and whether the retriever held a snapshot then
    /\ raisedAt' = [raisedAt EXCEPT ![j] = [at |-> pc[j], snap |-> snapshot_dir[j]]]

\* rag_pipeline/indexer.py _cleanup_snapshot
cleanup_snapshot(j) ==
    /\ snapshot_dir' = [snapshot_dir EXCEPT ![j] = FALSE]
    /\ snapIdx' = [snapIdx EXCEPT ![j] = Absent]
    /\ snapCache' = [snapCache EXCEPT ![j] = Absent]

\* variant of restore_snapshot that removes the snapshot without copying it
\* back
restore_snapshot_Skip(j, i, c) ==
    /\ fIndex' = i
    /\ fCache' = c
    /\ cleanup_snapshot(j)

\* rag_pipeline/indexer.py _restore_snapshot applied to the final pair whose
\* content after the failed write is (i, c): the snapshot files are copied
\* back when the snapshot directory exists, and the snapshot is removed
restore_snapshot(j, i, c) ==
    /\ fIndex' = IF snapshot_dir[j] THEN snapIdx[j] ELSE i
    /\ fCache' = IF snapshot_dir[j] THEN snapCache[j] ELSE c
    /\ cleanup_snapshot(j)

\* rag_pipeline/indexer.py generate_index up to its await: a temp_index_*
\* directory is made, the retriever's paths point into it and
\* _generate_index_sync is handed to the executor
StartGenerate(j, target, phase) ==
    /\ gen_dir' = [gen_dir EXCEPT ![j] = @ + 1]
    /\ genIdx' = [genIdx EXCEPT ![j] = Absent]
    /\ genCache' = [genCache EXCEPT ![j] = Absent]
    /\ gtarget' = [gtarget EXCEPT ![j] = target]
    /\ gphase' = [gphase EXCEPT ![j] = phase]
    /\ pc' = [pc EXCEPT ![j] = "g_embed"]

\* utils/common/test.py:235 onwards, reached with operation_success = True
PostOk(j) ==
    /\ operation_success' = [operation_success EXCEPT ![j] = TRUE]
    /\ running' = running \ {j}
    /\ pc' = [pc EXCEPT ![j] = "i_complete"]

\* ------------------------------------------- process_index_job (the task)
\* utils/common/test.py:33-41: mkdtemp, then the job is marked processing
IStart(j) ==
    /\ LoopFree
    /\ kind[j] = "index" /\ pc[j] = "created" /\ ~killReq[j]
    /\ temp_dir' = [temp_dir EXCEPT ![j] = TRUE]
    /\ update_job_status(j, "processing", "")
    /\ pc' = [pc EXCEPT ![j] = "i_lookup"]
    /\ pre' = [pre EXCEPT ![j] = [index |-> fIndex, cache |-> fCache, rec |-> rec]]
    /\ UNCHANGED <<kind, owner, mode, req, cancel_requested, operation_success,
                   error_msg, killReq, killed, running, cx, diskVars,
                   jobIdx, jobCache, gen_dir, genIdx, genCache, snapshot_dir,
                   snapIdx, snapCache, retrVars, ws, restarts, cancelSeen, pendingCancelled,
                   raisedOnCancel, raisedAt, extVars>>

\* utils/common/test.py:42-61: industry or review missing
ILookupMissing(j) ==
    /\ LoopFree
    /\ kind[j] = "index" /\ pc[j] = "i_lookup" /\ ~killReq[j]
    /\ update_job_status(j, "failed", ErrNotFound)
    /\ pc' = [pc EXCEPT ![j] = "i_finally"]
    /\ UNCHANGED <<kind, owner, mode, req, cancel_requested, operation_success,
                   error_msg, killReq, killed, running, cx, diskVars, scratchVars,
                   retrVars, ws, histVars, extVars>>

\* a database call or FaissRetriever.create raises inside the try block
IRaise(j) ==
    /\ LoopFree
    /\ kind[j] = "index" /\ ~killReq[j]
    /\ pc[j] \in {"i_lookup", "a_create", "a_ret_true", "n_create", "n_record",
                "i_delete"}
    /\ pc' = [pc EXCEPT ![j] = "i_except"]
    /\ NoteRaise(j)
    /\ UNCHANGED <<jobVars, req, cancel_requested, operation_success, error_msg,
                   killReq, killed, running, cx, diskVars, scratchVars, retrVars,
                   ws, restarts, cancelSeen, pendingCancelled, pre, extVars>>

\* utils/common/test.py:63-68,93-95,206: the three cases.  With mode=add and
\* an index file the retriever is created with a session (one more await);
\* with a record and mode=replace it is created without one, so lines 98-135
\* run in the same step: load or build at the final paths, redirect the paths
\* into temp_dir, register, start generate_index
ILookup(j) ==
    /\ LoopFree
    /\ kind[j] = "index" /\ pc[j] = "i_lookup" /\ ~killReq[j]
    /\ IF rec.exists /\ fIndex # Absent /\ mode[j] = "add"
       THEN /\ branch' = [branch EXCEPT ![j] = "add"]
            /\ pc' = [pc EXCEPT ![j] = "a_create"]
            /\ UNCHANGED <<running, memIndex, memDocs, gen_dir, genIdx, genCache,
                           gtarget, gphase>>
       ELSE IF rec.exists /\ mode[j] = "replace"
       THEN /\ branch' = [branch EXCEPT ![j] = "replace"]
            /\ IF fIndex # Absent /\ fCache # Absent
               THEN /\ Loadable(fIndex) /\ Loadable(fCache)
                    /\ memDocs' = [memDocs EXCEPT ![j] = fCache]
                    /\ memIndex' = [memIndex EXCEPT ![j] = fIndex]
                    /\ running' = running \cup {j}
                    /\ StartGenerate(j, "job", "main")
               ELSE /\ StartGenerate(j, "final", "create")
                    /\ UNCHANGED <<running, memIndex, memDocs>>
       ELSE /\ branch' = [branch EXCEPT ![j] = "new"]
            /\ pc' = [pc EXCEPT ![j] = "n_create"]
            /\ UNCHANGED <<running, memIndex, memDocs, gen_dir, genIdx, genCache,
                           gtarget, gphase>>
    /\ UNCHANGED <<jobVars, req, cancel_requested, operation_success, error_msg,
                   killReq, killed, cx, diskVars, temp_dir, jobIdx, jobCache,
                   snapshot_dir, snapIdx, snapCache, bi, ws, histVars, extVars>>

\* utils/common/test.py:69-79 with indexer.py:90-128 and 339-348: the
\* retriever loads the pair, is registered, takes its snapshot (which may
\* fail, indexer.py:154-157) and hands _update_index_sync to the executor
ACreate(j, snapOk) ==
    /\ LoopFree
    /\ kind[j] = "index" /\ pc[j] = "a_create" /\ ~killReq[j]
    /\ Loadable(fIndex) /\ Loadable(fCache)
    /\ memDocs' = [memDocs EXCEPT ![j] = fCache]
    /\ memIndex' = [memIndex EXCEPT ![j] = fIndex]
    /\ running' = running \cup {j}
    /\ snapshot_dir' = [snapshot_dir EXCEPT ![j] = snapOk]
    /\ snapIdx' = [snapIdx EXCEPT ![j] = IF snapOk THEN fIndex ELSE Absent]
    /\ snapCache' = [snapCache EXCEPT ![j] = IF snapOk THEN fCache ELSE Absent]
    /\ pc' = [pc EXCEPT ![j] = "a_embed"]
    /\ UNCHANGED <<jobVars, req, cancel_requested, operation_success, error_msg,
                   killReq, killed, cx, diskVars, temp_dir, jobIdx, jobCache,
                   gen_dir, genIdx, genCache, bi, gtarget, gphase, branch, ws,
                   histVars, extVars>>

\* --------------------------------- _update_index_sync (executor thread)
\* a variant of AEmbed that always starts a fresh index (replace semantics)
AEmbed_Fresh(j) ==
    /\ pc[j] = "a_embed"
    /\ memDocs' = [memDocs EXCEPT ![j] = NewDocs(j)]
    /\ memIndex' = [memIndex EXCEPT ![j] = Absent]
    /\ bi' = [bi EXCEPT ![j] = 0]
    /\ pc' = [pc EXCEPT ![j] = "a_loop"]
    /\ UNCHANGED <<jobVars, req, cancel_requested, operation_success, error_msg,
                   killReq, killed, running, cx, diskVars, scratchVars, gtarget,
                   gphase, branch, ws, histVars, extVars>>

\* indexer.py:364-384: the new documents are embedded; they extend the loaded
\* documents, or start a fresh index when the index file is gone
AEmbed(j) ==
    /\ pc[j] = "a_embed"
    /\ memDocs' = [memDocs EXCEPT ![j] = IF fIndex = Absent THEN NewDocs(j)
                                         ELSE @ \o NewDocs(j)]
    /\ memIndex' = [memIndex EXCEPT ![j] = IF fIndex = Absent THEN Absent ELSE @]
    /\ bi' = [bi EXCEPT ![j] = 0]
    /\ pc' = [pc EXCEPT ![j] = "a_loop"]
    /\ UNCHANGED <<jobVars, req, cancel_requested, operation_success, error_msg,
                   killReq, killed, running, cx, diskVars, scratchVars, gtarget,
                   gphase, branch, ws, histVars, extVars>>

\* variant of ABatch without the checkpoint
ABatch_NoCheck(j) ==
    /\ pc[j] = "a_loop" /\ bi[j] < NumBatches
    /\ memIndex' = [memIndex EXCEPT ![j] = Append(@, NewDocs(j)[bi[j] + 1])]
    /\ bi' = [bi EXCEPT ![j] = @ + 1]
    /\ pc' = pc
    /\ UNCHANGED <<jobVars, req, cancel_requested, operation_success, error_msg,
                   killReq, killed, running, cx, diskVars, scratchVars, memDocs,
                   gtarget, gphase, branch, ws, histVars, extVars>>

\* indexer.py:388-393: the checkpoint, then one batch is added
ABatch(j) ==
    /\ pc[j] = "a_loop" /\ bi[j] < NumBatches
    /\ IF cancel_requested[j]
       THEN /\ pc' = [pc EXCEPT ![j] = "a_ret_none"]
            /\ UNCHANGED <<memIndex, bi>>
       ELSE /\ memIndex' = [memIndex EXCEPT ![j] = Append(@, NewDocs(j)[bi[j] + 1])]
            /\ bi' = [bi EXCEPT ![j] = @ + 1]
            /\ pc' = pc
    /\ UNCHANGED <<jobVars, req, cancel_requested, operation_success, error_msg,
                   killReq, killed, running, cx, diskVars, scratchVars, memDocs,
                   gtarget, gphase, branch, ws, histVars, extVars>>

\* indexer.py:394-395,405-406: after the loop the index file is overwritten in
\* place unless cancellation was requested
AWriteIndex(j) ==
    /\ pc[j] = "a_loop" /\ bi[j] = NumBatches
    /\ IF cancel_requested[j]
       THEN /\ pc' = [pc EXCEPT ![j] = "a_ret_false"]
            /\ UNCHANGED fIndex
       ELSE /\ fIndex' = memIndex[j]
            /\ pc' = [pc EXCEPT ![j] = "a_write_cache"]
    /\ UNCHANGED <<jobVars, req, cancel_requested, operation_success, error_msg,
                   killReq, killed, running, cx, fCache, rec, scratchVars,
                   retrVars, ws, histVars, extVars>>

\* indexer.py:396-404: the cache file is overwritten, the snapshot removed
AWriteCache(j) ==
    /\ pc[j] = "a_write_cache"
    /\ fCache' = memDocs[j]
    /\ cleanup_snapshot(j)
    /\ pc' = [pc EXCEPT ![j] = "a_ret_true"]
    /\ UNCHANGED <<jobVars, req, cancel_requested, operation_success, error_msg,
                   killReq, killed, running, cx, fIndex, rec, temp_dir, jobIdx,
                   jobCache, gen_dir, genIdx, genCache, retrVars, ws, histVars, extVars>>

\* indexer.py:407-411: an exception in the thread (loading or embedding, or a
\* write that leaves the file as it was or truncated) restores the snapshot
AThreadRaise(j, trunc) ==
    /\ \/ pc[j] = "a_embed" /\ ~trunc /\ restore_snapshot(j, fIndex, fCache)
       \/ /\ pc[j] = "a_loop" /\ bi[j] = NumBatches /\ ~cancel_requested[j]
          /\ restore_snapshot(j, IF trunc THEN Truncated ELSE fIndex, fCache)
       \/ /\ pc[j] = "a_write_cache"
          /\ restore_snapshot(j, fIndex, IF trunc THEN Truncated ELSE fCache)
    /\ pc' = [pc EXCEPT ![j] = "a_raised"]
    /\ NoteRaise(j)
    /\ UNCHANGED <<jobVars, req, cancel_requested, operation_success, error_msg,
                   killReq, killed, running, cx, rec, temp_dir, jobIdx, jobCache,
                   gen_dir, genIdx, genCache, retrVars, ws, restarts, cancelSeen, pendingCancelled, pre, extVars>>

\* indexer.py:350-354 and test.py:80,235: the thread returned True; the
\* IndexRecord is updated and the job goes on to completion
AReturn(j) ==
    /\ LoopFree
    /\ kind[j] = "index" /\ pc[j] = "a_ret_true" /\ ~killReq[j]
    /\ rec' = [exists |-> TRUE, reviews_included |-> Len(memDocs[j])]
    /\ PostOk(j)
    /\ UNCHANGED <<jobVars, req, cancel_requested, error_msg, killReq, killed, cx,
                   fIndex, fCache, scratchVars, retrVars, ws, histVars, extVars>>

\* ------------------------------ _generate_index_sync (executor thread)
\* indexer.py:275-288
GEmbed(j) ==
    /\ pc[j] = "g_embed"
    /\ memDocs' = [memDocs EXCEPT ![j] = NewDocs(j)]
    /\ memIndex' = [memIndex EXCEPT ![j] = Absent]
    /\ bi' = [bi EXCEPT ![j] = 0]
    /\ pc' = [pc EXCEPT ![j] = "g_loop"]
    /\ UNCHANGED <<jobVars, req, cancel_requested, operation_success, error_msg,
                   killReq, killed, running, cx, diskVars, scratchVars, gtarget,
                   gphase, branch, ws, histVars, extVars>>

\* indexer.py:289-294
GBatch(j) ==
    /\ pc[j] = "g_loop" /\ bi[j] < NumBatches
    /\ IF cancel_requested[j]
       THEN /\ pc' = [pc EXCEPT ![j] = "g_ret_none"]
            /\ UNCHANGED <<memIndex, bi>>
       ELSE /\ memIndex' = [memIndex EXCEPT ![j] = Append(@, NewDocs(j)[bi[j] + 1])]
            /\ bi' = [bi EXCEPT ![j] = @ + 1]
            /\ pc' = pc
    /\ UNCHANGED <<jobVars, req, cancel_requested, operation_success, error_msg,
                   killReq, killed, running, cx, diskVars, scratchVars, memDocs,
                   gtarget, gphase, branch, ws, histVars, extVars>>

\* variant of GWriteIndex in which the index is written at the final path
\* as well, as if generate_index did not redirect its paths
GWriteIndex_InPlace(j) ==
    /\ pc[j] = "g_loop" /\ bi[j] = NumBatches
    /\ IF cancel_requested[j]
       THEN /\ pc' = [pc EXCEPT ![j] = "g_ret_false"]
            /\ UNCHANGED <<genIdx, fIndex>>
       ELSE /\ genIdx' = [genIdx EXCEPT ![j] = memIndex[j]]
            /\ fIndex' = memIndex[j]
            /\ pc' = [pc EXCEPT ![j] = "g_write_cache"]
    /\ UNCHANGED <<jobVars, req, cancel_requested, operation_success, error_msg,
                   killReq, killed, running, cx, fCache, rec, temp_dir, jobIdx,
                   jobCache, gen_dir, genCache, snapshot_dir, snapIdx, snapCache,
                   retrVars, ws, histVars, extVars>>

\* indexer.py:295-302,324-325: the index is written into the temp_index_* directory
GWriteIndex(j) ==
    /\ pc[j] = "g_loop" /\ bi[j] = NumBatches
    /\ IF cancel_requested[j]
       THEN /\ pc' = [pc EXCEPT ![j] = "g_ret_false"]
            /\ UNCHANGED genIdx
       ELSE /\ genIdx' = [genIdx EXCEPT ![j] = memIndex[j]]
            /\ pc' = [pc EXCEPT ![j] = "g_write_cache"]
    /\ UNCHANGED <<jobVars, req, cancel_requested, operation_success, error_msg,
                   killReq, killed, running, cx, diskVars, temp_dir, jobIdx,
                   jobCache, gen_dir, genCache, snapshot_dir, snapIdx, snapCache,
                   retrVars, ws, histVars, extVars>>

\* indexer.py:304-323
GWriteCache(j) ==
    /\ pc[j] = "g_write_cache"
    /\ genCache' = [genCache EXCEPT ![j] = memDocs[j]]
    /\ pc' = [pc EXCEPT ![j] = "g_ret_true"]
    /\ UNCHANGED <<jobVars, req, cancel_requested, operation_success, error_msg,
                   killReq, killed, running, cx, diskVars, temp_dir, jobIdx,
                   jobCache, gen_dir, genIdx, snapshot_dir, snapIdx, snapCache,
                   retrVars, ws, histVars, extVars>>

\* indexer.py:326-328: an exception in the thread is re-raised, nothing is restored
GThreadRaise(j) ==
    /\ \/ pc[j] \in {"g_embed", "g_write_cache"}
       \/ pc[j] = "g_loop" /\ bi[j] = NumBatches /\ ~cancel_requested[j]
    /\ pc' = [pc EXCEPT ![j] = "g_raised"]
    /\ NoteRaise(j)
    /\ UNCHANGED <<jobVars, req, cancel_requested, operation_success, error_msg,
                   killReq, killed, running, cx, diskVars, scratchVars, retrVars,
                   ws, restarts, cancelSeen, pendingCancelled, pre, extVars>>

\* ------------------------------------ generate_index, after the thread
\* indexer.py:262-263: copy2 of the two temp_index_* files to the paths the
\* retriever had when generate_index was called
CopyToTarget(j, i, c) ==
    IF gtarget[j] = "final"
    THEN /\ fIndex' = i /\ fCache' = c
         /\ UNCHANGED <<jobIdx, jobCache>>
    ELSE /\ jobIdx' = [jobIdx EXCEPT ![j] = i]
         /\ jobCache' = [jobCache EXCEPT ![j] = c]
         /\ UNCHANGED <<fIndex, fCache>>

TargetIndex(j) == IF gtarget[j] = "final" THEN fIndex ELSE jobIdx[j]
TargetCache(j) == IF gtarget[j] = "final" THEN fCache ELSE jobCache[j]

\* indexer.py:262-270: the first or the second copy2 raises
GCopyFails(j, which) ==
    /\ LoopFree
    /\ kind[j] = "index" /\ pc[j] = "g_ret_true" /\ ~killReq[j]
    /\ CopyToTarget(j, IF which = "index" THEN TargetIndex(j) ELSE genIdx[j],
                    TargetCache(j))
    /\ pc' = [pc EXCEPT ![j] = "i_except"]
    /\ NoteRaise(j)
    /\ UNCHANGED <<jobVars, req, cancel_requested, operation_success, error_msg,
                   killReq, killed, running, cx, rec, temp_dir, gen_dir, genIdx,
                   genCache, snapshot_dir, snapIdx, snapCache, retrVars, ws,
                   restarts, cancelSeen, pendingCancelled, pre, extVars>>

\* indexer.py:261-267 returning True into its caller:
\*   inside create, new index (indexer.py:121-124): the record is written next;
\*   inside create, replace with a file of the pair missing (db is None): back
\*     in test.py:106-135 the paths are redirected, the retriever registered
\*     and generate_index called again;
\*   test.py:217: operation_success;
\*   test.py:135-165: the IndexRecord is updated and committed (or the commit
\*     raises) before the swap.
GDone(j, commitOk) ==
    /\ LoopFree
    /\ kind[j] = "index" /\ pc[j] = "g_ret_true" /\ ~killReq[j]
    /\ CopyToTarget(j, genIdx[j], genCache[j])
    /\ IF gphase[j] = "create" /\ branch[j] = "new"
       THEN /\ commitOk
            /\ pc' = [pc EXCEPT ![j] = "n_record"]
            /\ UNCHANGED <<rec, running, operation_success, gen_dir, genIdx,
                           genCache, gtarget, gphase>>
       ELSE IF gphase[j] = "create"
       THEN /\ commitOk
            /\ running' = running \cup {j}
            /\ StartGenerate(j, "job", "main")
            /\ UNCHANGED <<rec, operation_success>>
       ELSE IF branch[j] = "new"
       THEN /\ commitOk
            /\ PostOk(j)
            /\ UNCHANGED <<rec, gen_dir, genIdx, genCache, gtarget, gphase>>
       ELSE /\ rec' = IF commitOk
                      THEN [exists |-> TRUE, reviews_included |-> Len(memDocs[j])]
                      ELSE rec
            /\ pc' = [pc EXCEPT ![j] = IF commitOk THEN "r_swap" ELSE "i_except"]
            /\ UNCHANGED <<running, operation_success, gen_dir, genIdx, genCache,
                           gtarget, gphase>>
    /\ IF ~commitOk THEN NoteRaise(j) ELSE UNCHANGED <<raisedOnCancel, raisedAt>>
    /\ UNCHANGED <<jobVars, req, cancel_requested, error_msg, killReq, killed, cx,
                   temp_dir, snapshot_dir, snapIdx, snapCache, memIndex, memDocs,
                   bi, branch, ws, restarts, cancelSeen, pendingCancelled, pre, extVars>>

\* test.py:208-217 with indexer.py:90-128: new-index case.  An existing pair is
\* loaded and generate_index called at once; otherwise create builds the
\* index itself first (indexer.py:116-121), unregistered
NCreate(j) ==
    /\ LoopFree
    /\ kind[j] = "index" /\ pc[j] = "n_create" /\ ~killReq[j]
    /\ IF fIndex # Absent /\ fCache # Absent
       THEN /\ Loadable(fIndex) /\ Loadable(fCache)
            /\ memDocs' = [memDocs EXCEPT ![j] = fCache]
            /\ memIndex' = [memIndex EXCEPT ![j] = fIndex]
            /\ running' = running \cup {j}
            /\ StartGenerate(j, "final", "main")
       ELSE /\ StartGenerate(j, "final", "create")
            /\ UNCHANGED <<running, memIndex, memDocs>>
    /\ UNCHANGED <<jobVars, req, cancel_requested, operation_success, error_msg,
                   killReq, killed, cx, diskVars, temp_dir, jobIdx, jobCache,
                   snapshot_dir, snapIdx, snapCache, bi, branch, ws, histVars, extVars>>

\* indexer.py:123-124,214-240 then test.py:214-217: the record is created or
\* updated, the retriever registered and generate_index called again
NRecord(j) ==
    /\ LoopFree
    /\ kind[j] = "index" /\ pc[j] = "n_record" /\ ~killReq[j]
    /\ rec' = [exists |-> TRUE, reviews_included |-> Len(memDocs[j])]
    /\ running' = running \cup {j}
    /\ StartGenerate(j, "final", "main")
    /\ UNCHANGED <<jobVars, req, cancel_requested, operation_success, error_msg,
                   killReq, killed, cx, fIndex, fCache, temp_dir, jobIdx, jobCache,
                   snapshot_dir, snapIdx, snapCache, memIndex, memDocs, bi,
                   branch, ws, histVars, extVars>>

\* test.py:167-204,235: the old pair is removed and the scratch pair copied to
\* the final paths, four file operations in a row, any of which may raise
RSwap(j, out) ==
    /\ LoopFree
    /\ kind[j] = "index" /\ pc[j] = "r_swap" /\ ~killReq[j]
    /\ \/ /\ out = "ok"
          /\ fIndex' = jobIdx[j] /\ fCache' = jobCache[j]
          /\ PostOk(j)
       \/ /\ out = "fail_rm_index" /\ fIndex # Absent
          /\ UNCHANGED <<fIndex, fCache, operation_success, running>>
          /\ pc' = [pc EXCEPT ![j] = "i_except"]
       \/ /\ out = "fail_rm_cache" /\ fCache # Absent
          /\ fIndex' = Absent
          /\ UNCHANGED <<fCache, operation_success, running>>
          /\ pc' = [pc EXCEPT ![j] = "i_except"]
       \/ /\ out = "fail_cp_index"
          /\ fIndex' = Absent /\ fCache' = Absent
          /\ UNCHANGED <<operation_success, running>>
          /\ pc' = [pc EXCEPT ![j] = "i_except"]
       \/ /\ out = "fail_cp_cache"
          /\ fIndex' = jobIdx[j] /\ fCache' = Absent
          /\ UNCHANGED <<operation_success, running>>
          /\ pc' = [pc EXCEPT ![j] = "i_except"]
    /\ IF out # "ok" THEN NoteRaise(j) ELSE UNCHANGED <<raisedOnCancel, raisedAt>>
    /\ UNCHANGED <<jobVars, req, cancel_requested, error_msg, killReq, killed, cx,
                   rec, scratchVars, retrVars, ws, restarts, cancelSeen, pendingCancelled, pre, extVars>>

SwapOutcomes == {"ok", "fail_rm_index", "fail_rm_cache", "fail_cp_index", "fail_cp_cache"}

\* test.py:80-92,137-149,219-231: the engine returned a falsy value
NotSuccess(j) ==
    /\ LoopFree
    /\ kind[j] = "index" /\ ~killReq[j]
    /\ pc[j] \in {"a_ret_none", "a_ret_false", "g_ret_none", "g_ret_false"}
    /\ IF cancel_requested[j]
       THEN /\ error_msg' = [error_msg EXCEPT ![j] = ErrUser]
            /\ update_job_status(j, "cancelled", ErrUser)
       ELSE /\ error_msg' = [error_msg EXCEPT ![j] = ErrOpFailed]
            /\ UNCHANGED <<status, error>>
    /\ pc' = [pc EXCEPT ![j] = "i_finally"]
    /\ UNCHANGED <<kind, owner, mode, req, cancel_requested, operation_success,
                   killReq, killed, running, cx, diskVars, scratchVars, retrVars,
                   ws, histVars, extVars>>

\* test.py:238-255: the record is read back and the job marked completed
IComplete(j) ==
    /\ LoopFree
    /\ kind[j] = "index" /\ pc[j] = "i_complete" /\ ~killReq[j]
    /\ IF rec.exists
       THEN /\ update_job_status(j, "completed", "")
            /\ pc' = [pc EXCEPT ![j] = "i_delete"]
            /\ UNCHANGED error_msg
       ELSE /\ update_job_status(j, "failed", ErrNoIndex)
            /\ error_msg' = [error_msg EXCEPT ![j] = ErrNoIndex]
            /\ pc' = [pc EXCEPT ![j] = "i_finally"]
    /\ UNCHANGED <<kind, owner, mode, req, cancel_requested, operation_success,
                   killReq, killed, running, cx, diskVars, scratchVars, retrVars,
                   ws, histVars, extVars>>

\* test.py:258-260: the input review is deleted
IDelete(j) ==
    /\ LoopFree
    /\ kind[j] = "index" /\ pc[j] = "i_delete" /\ ~killReq[j]
    /\ pc' = [pc EXCEPT ![j] = "i_finally"]
    /\ UNCHANGED <<jobVars, req, cancel_requested, operation_success, error_msg,
                   killReq, killed, running, cx, diskVars, scratchVars, retrVars,
                   ws, histVars, extVars>>

\* str(e) of an exception: a text, or empty for one raised without arguments
ExcMessages == {ErrExc, ""}

\* test.py:262-265: except Exception; error_msg = str(e)
IExcept(j, msg) ==
    /\ LoopFree
    /\ kind[j] = "index" /\ ~killReq[j]
    /\ pc[j] \in {"i_except", "a_raised", "g_raised"}
    /\ error_msg' = [error_msg EXCEPT ![j] = msg]
    /\ update_job_status(j, "failed", msg)
    /\ pc' = [pc EXCEPT ![j] = "i_finally"]
    /\ UNCHANGED <<kind, owner, mode, req, cancel_requested, operation_success,
                   killReq, killed, running, cx, diskVars, scratchVars, retrVars,
                   ws, histVars, extVars>>

\* variant of IFinally that leaves the registry entry in place
IFinally_KeepHandle(j) ==
    /\ LoopFree
    /\ kind[j] = "index" /\ pc[j] = "i_finally" /\ ~killReq[j]
    /\ temp_dir' = [temp_dir EXCEPT ![j] = FALSE]
    /\ jobIdx' = [jobIdx EXCEPT ![j] = Absent]
    /\ jobCache' = [jobCache EXCEPT ![j] = Absent]
    /\ pc' = [pc EXCEPT ![j] = IF error_msg[j] # "" /\ ~operation_success[j]
                               THEN "i_fin_status" ELSE Ended(j)]
    /\ UNCHANGED <<jobVars, req, cancel_requested, operation_success, error_msg,
                   killReq, killed, running, cx, diskVars, gen_dir, genIdx, genCache,
                   snapshot_dir, snapIdx, snapCache, retrVars, ws, histVars, extVars>>

\* test.py:266-280: finally, up to the status update
IFinally(j) ==
    /\ LoopFree
    /\ kind[j] = "index" /\ pc[j] = "i_finally" /\ ~killReq[j]
    /\ running' = running \ {j}
    /\ temp_dir' = [temp_dir EXCEPT ![j] = FALSE]
    /\ jobIdx' = [jobIdx EXCEPT ![j] = Absent]
    /\ jobCache' = [jobCache EXCEPT ![j] = Absent]
    /\ pc' = [pc EXCEPT ![j] = IF error_msg[j] # "" /\ ~operation_success[j]
                               THEN "i_fin_status" ELSE Ended(j)]
    /\ UNCHANGED <<jobVars, req, cancel_requested, operation_success, error_msg,
                   killReq, killed, cx, diskVars, gen_dir, genIdx, genCache,
                   snapshot_dir, snapIdx, snapCache, retrVars, ws, histVars, extVars>>

\* test.py:280-295: the status is written once more
IFinStatus(j) ==
    /\ LoopFree
    /\ kind[j] = "index" /\ pc[j] = "i_fin_status" /\ ~killReq[j]
    /\ IF cancel_requested[j]
       THEN update_job_status(j, "cancelled", ErrUser)
       ELSE update_job_status(j, "failed", error_msg[j])
    /\ pc' = [pc EXCEPT ![j] = Ended(j)]
    /\ UNCHANGED <<kind, owner, mode, req, cancel_requested, operation_success,
                   error_msg, killReq, killed, running, cx, diskVars, scratchVars,
                   retrVars, ws, histVars, extVars>>

\* task.cancel() reaches the task at its next await: CancelledError is not an
\* Exception, so only the finally block runs (its awaited status update is
\* abandoned when the error arrives there).  A task cancelled before its
\* first step never enters the try block.
IKilled(j) ==
    /\ LoopFree
    /\ kind[j] = "index" /\ killReq[j] /\ Live(j) /\ pc[j] \notin ThreadPcs
    /\ killReq' = [killReq EXCEPT ![j] = FALSE]
    /\ killed' = [killed EXCEPT ![j] = TRUE]
    /\ pc' = [pc EXCEPT ![j] = IF pc[j] \in {"created", "i_fin_status"}
                               THEN "killed" ELSE "i_finally"]
    /\ UNCHANGED <<jobVars, req, cancel_requested, operation_success, error_msg,
                   running, cx, diskVars, scratchVars, retrVars, ws, histVars, extVars>>

\* ------------------------------------------ process_review_job (the task)
UpdateStatus(j, s, e) ==
    IF kind[j] = "index" THEN update_job_status(j, s, e) /\ UNCHANGED progress
                         ELSE update_review_job_status(j, s, e, "None")

\* pcs of process_review_job inside its try block
ReviewTryPcs == {"v_lookup", "v_retr", "v_reg", "v_classify", "v_p80", "v_final",
                 "v_complete"}

\* utils/routers/jobs.py:43-131, 169-181, 204-210, 228-238: a status update
\* that rewrites "processing" (with a progress value) and moves on
VProgress(j) ==
    /\ LoopFree
    /\ kind[j] = "review" /\ ~killReq[j]
    /\ pc[j] \in {"created", "v_lookup", "v_retr", "v_reg", "v_p80"}
    /\ update_review_job_status(j, "processing", "",
                                CASE pc[j] = "created" -> "None"
                                  [] pc[j] = "v_lookup" -> 10
                                  [] pc[j] = "v_retr" -> 25
                                  [] pc[j] = "v_reg" -> 30
                                  [] pc[j] = "v_p80" -> 80)
    /\ pc' = [pc EXCEPT ![j] = CASE pc[j] = "created" -> "v_lookup"
                                 [] pc[j] = "v_lookup" -> "v_retr"
                                 [] pc[j] = "v_retr" -> "v_reg"
                                 [] pc[j] = "v_reg" -> "v_classify"
                                 [] pc[j] = "v_p80" -> "v_final"]
    \* jobs.py:196-202: the handle is registered before the 30% update
    /\ running' = IF pc[j] = "v_reg" THEN running \cup {j} ELSE running
    /\ UNCHANGED <<kind, owner, mode, req, cancel_requested, operation_success,
                   error_msg, killReq, killed, cx, diskVars, scratchVars, retrVars,
                   ws, histVars, rd, batchVars, subVars, api, nt>>

\* jobs.py:216-225 classify_and_merge and jobs.py:247-264 create_review return
VStep(j) ==
    /\ LoopFree
    /\ kind[j] = "review" /\ ~killReq[j]
    /\ pc[j] \in {"v_classify", "v_final"}
    /\ pc' = [pc EXCEPT ![j] = IF pc[j] = "v_classify" THEN "v_p80" ELSE "v_complete"]
    /\ UNCHANGED <<jobVars, req, cancel_requested, operation_success, error_msg,
                   killReq, killed, running, cx, diskVars, scratchVars, retrVars,
                   ws, histVars, extVars>>

\* jobs.py:56-110, 216, 249: a lookup, the classification or the creation of
\* the final review raises
VRaise(j) ==
    /\ LoopFree
    /\ kind[j] = "review" /\ ~killReq[j]
    /\ pc[j] \in {"v_lookup", "v_classify", "v_final"}
    /\ pc' = [pc EXCEPT ![j] = "v_except"]
    /\ NoteRaise(j)
    /\ UNCHANGED <<jobVars, req, cancel_requested, operation_success, error_msg,
                   killReq, killed, running, cx, diskVars, scratchVars, retrVars,
                   ws, restarts, cancelSeen, pendingCancelled, pre, extVars>>

\* jobs.py:266-281
VComplete(j) ==
    /\ LoopFree
    /\ kind[j] = "review" /\ pc[j] = "v_complete" /\ ~killReq[j]
    /\ update_review_job_status(j, "completed", "", 100)
    /\ pc' = [pc EXCEPT ![j] = "v_finally"]
    /\ UNCHANGED <<kind, owner, mode, req, cancel_requested, operation_success,
                   error_msg, killReq, killed, running, cx, diskVars, scratchVars,
                   retrVars, ws, histVars, rd, batchVars, subVars, api, nt>>

\* variant of VExcept in which the handler records the message but does not
\* store the status
VExcept_NoWrite(j) ==
    /\ LoopFree
    /\ kind[j] = "review" /\ pc[j] = "v_except" /\ ~killReq[j]
    /\ error_msg' = [error_msg EXCEPT ![j] = ErrExc]
    /\ pc' = [pc EXCEPT ![j] = "v_finally"]
    /\ UNCHANGED <<jobVars, req, cancel_requested, operation_success,
                   killReq, killed, running, cx, diskVars, scratchVars, retrVars,
                   ws, histVars, extVars>>

\* jobs.py:299-312: except Exception
VExcept(j) ==
    /\ LoopFree
    /\ kind[j] = "review" /\ pc[j] = "v_except" /\ ~killReq[j]
    /\ error_msg' = [error_msg EXCEPT ![j] = ErrExc]
    /\ update_review_job_status(j, "failed", ErrExc, "None")
    /\ pc' = [pc EXCEPT ![j] = "v_finally"]
    /\ UNCHANGED <<kind, owner, mode, req, cancel_requested, operation_success,
                   killReq, killed, running, cx, diskVars, scratchVars, retrVars,
                   ws, histVars, rd, batchVars, subVars, api, nt>>

\* jobs.py:283-297: except asyncio.CancelledError
VCancelled(j) ==
    /\ LoopFree
    /\ kind[j] = "review" /\ pc[j] = "v_cancelled" /\ ~killReq[j]
    /\ update_review_job_status(j, "cancelled", ErrUser, "None")
    /\ pc' = [pc EXCEPT ![j] = "v_finally"]
    /\ UNCHANGED <<kind, owner, mode, req, cancel_requested, operation_success,
                   error_msg, killReq, killed, running, cx, diskVars, scratchVars,
                   retrVars, ws, histVars, rd, batchVars, subVars, api, nt>>

\* jobs.py:314-317: finally
VFinally(j) ==
    /\ LoopFree
    /\ kind[j] = "review" /\ pc[j] = "v_finally" /\ ~killReq[j]
    /\ running' = running \ {j}
    /\ pc' = [pc EXCEPT ![j] = Ended(j)]
    /\ UNCHANGED <<jobVars, req, cancel_requested, operation_success, error_msg,
                   killReq, killed, cx, diskVars, scratchVars, retrVars, ws,
                   histVars, extVars>>

\* task.cancel() reaches process_review_job at its next await
VKilled(j) ==
    /\ LoopFree
    /\ kind[j] = "review" /\ killReq[j] /\ Live(j)
    /\ killReq' = [killReq EXCEPT ![j] = FALSE]
    /\ killed' = [killed EXCEPT ![j] = TRUE]
    /\ pc' = [pc EXCEPT ![j] = IF pc[j] = "created" THEN "killed"
                               ELSE IF pc[j] \in ReviewTryPcs THEN "v_cancelled"
                               ELSE "v_finally"]
    /\ UNCHANGED <<jobVars, req, cancel_requested, operation_success, error_msg,
                   running, cx, diskVars, scratchVars, retrVars, ws, histVars, extVars>>

\* ------------------------------------------------------- cancel endpoint
\* routers/index.py:222-227 and utils/routers/jobs.py:335-345: the job is
\* read; nothing happens unless it is pending or processing
CancelRead(j) ==
    /\ LoopFree
    /\ cx[j] = "idle" /\ status[j] \in Active
    /\ cx' = [cx EXCEPT ![j] = "read"]
    \* history: the cancel endpoint was called for j
    /\ cancelSeen' = cancelSeen \cup {j}
    /\ UNCHANGED <<jobVars, req, taskVars, running, diskVars, scratchVars,
                   retrVars, ws, restarts, pendingCancelled, pre, raisedOnCancel, raisedAt,
                   extVars>>

\* routers/index.py:229-236,250-259 and utils/routers/jobs.py:347-353,367-376:
\* with a registered handle the cancel flag is set and the handler sleeps;
\* without one the job is marked cancelled at once
CancelAct(j) ==
    /\ LoopFree
    /\ cx[j] = "read"
    /\ IF j \in running
       THEN /\ cancel_requested' = [cancel_requested EXCEPT ![j] = TRUE]
            /\ cx' = [cx EXCEPT ![j] = "sleeping"]
            /\ UNCHANGED <<status, error, pendingCancelled, progress>>
       ELSE /\ UpdateStatus(j, "cancelled", ErrUser)
            /\ cx' = [cx EXCEPT ![j] = "idle"]
            /\ pendingCancelled' = IF status[j] = "pending" /\ pc[j] = "created"
                                   THEN pendingCancelled \cup {j}
                                   ELSE pendingCancelled
            /\ UNCHANGED cancel_requested
    /\ UNCHANGED <<kind, owner, mode, req, pc, operation_success, error_msg,
                   killReq, killed, running, diskVars, scratchVars, retrVars, ws,
                   restarts, cancelSeen, pre, raisedOnCancel, raisedAt, rd, batchVars, subVars, api, nt>>

\* routers/index.py:238-249 and utils/routers/jobs.py:355-366: after the sleep
\* the job is marked cancelled and its handle removed
CancelWake(j) ==
    /\ LoopFree
    /\ cx[j] = "sleeping"
    /\ UpdateStatus(j, "cancelled", ErrUser)
    /\ running' = running \ {j}
    /\ cx' = [cx EXCEPT ![j] = "idle"]
    /\ UNCHANGED <<kind, owner, mode, req, taskVars, diskVars, scratchVars,
                   retrVars, ws, histVars, rd, batchVars, subVars, api, nt>>

\* ------------------------------------------------------ status notifier
\* the row id of a job: ids come from the table's sequence in the order of
\* creation; the rows created between the first job followed here and the
\* later ones belong to jobs that are not followed
JobNumber(j) == IF j = 1 THEN 1 ELSE j + 8

\* str.startswith on the decimal forms of two ids
RECURSIVE IsDecimalPrefix(_, _)
IsDecimalPrefix(a, b) == b = a \/ (b >= 10 /\ IsDecimalPrefix(a, b \div 10))

\* routers/index.py:145, routers/jobs.py:90 with websockets.py:82-84,151-153:
\* the name of k's task, index_job<id> or review_job<id>, starts with the
\* name made from j's kind and id
NameStartsWith(k, j) ==
    kind[k] = kind[j] /\ IsDecimalPrefix(JobNumber(j), JobNumber(k))

\* routers/websockets.py:79-85,148-154: task.cancel() on every unfinished task
\* whose name starts with the name made from j
CancelNamed(j) ==
    [k \in JobIds |-> IF NameStartsWith(k, j) THEN Live(k) ELSE killReq[k]]

\* routers/websockets.py:24,93: a subscriber connects for an existing job
WsConnect(j) ==
    /\ LoopFree
    /\ status[j] # "none" /\ ws[j] = "none"
    /\ ws' = [ws EXCEPT ![j] = "open"]
    /\ UNCHANGED <<jobVars, req, taskVars, running, cx, diskVars, scratchVars,
                   retrVars, histVars, extVars>>

\* routers/websockets.py:59-62,66,79-85 and 128-131,135,148-154: the handler
\* ends (terminal status seen, or the peer disconnected) and its finally
\* block cancels the unfinished task named after the job
WsClose(j) ==
    /\ LoopFree
    /\ ws[j] = "open"
    /\ ws' = [ws EXCEPT ![j] = "closed"]
    /\ killReq' = CancelNamed(j)
    /\ UNCHANGED <<jobVars, req, pc, cancel_requested, operation_success,
                   error_msg, killed, running, cx, diskVars, scratchVars,
                   retrVars, histVars, extVars>>

\* routers/websockets.py:28,97: last_status = None, nothing sent yet
NtIdle == [last_status |-> "None", out |-> << >>, polls |-> 0]

\* routers/websockets.py:48-56,117-125: the status notification
StatusMsg(j) ==
    [kind |-> "status", status |-> status[j],
     error |-> IF status[j] = "failed" THEN error[j] ELSE ""]
\* routers/websockets.py:37,104
JobNotFound == [kind |-> "error", status |-> "", error |-> "Job not found"]

\* routers/websockets.py:19-24,88-93: the connection is accepted for any job
\* id, whether or not a row with that id exists
WsAccept(j) ==
    /\ LoopFree
    /\ ws[j] = "none"
    /\ ws' = [ws EXCEPT ![j] = "open"]
    /\ UNCHANGED <<jobVars, req, taskVars, running, cx, diskVars, scratchVars,
                   retrVars, histVars, extVars>>

\* variant of WsPoll that sends the status at every turn of the loop
WsPoll_AlwaysSend(j) ==
    /\ LoopFree
    /\ ws[j] = "open"
    /\ nt[j].polls < MaxPolls
    /\ IF status[j] = "none"
       THEN nt' = [nt EXCEPT ![j].out = Append(@, JobNotFound), ![j].polls = @ + 1]
       ELSE nt' = [nt EXCEPT ![j].out = Append(@, StatusMsg(j)),
                             ![j].last_status = status[j],
                             ![j].polls = @ + 1]
    /\ IF status[j] = "none" \/ status[j] \in Terminal
       THEN /\ ws' = [ws EXCEPT ![j] = "closed"]
            /\ killReq' = CancelNamed(j)
       ELSE UNCHANGED <<ws, killReq>>
    /\ UNCHANGED <<jobVars, req, pc, cancel_requested, operation_success,
                   error_msg, killed, running, cx, diskVars, scratchVars,
                   retrVars, histVars, rd, batchVars, subVars, api, progress>>

\* variant of WsPoll that goes on polling after a terminal status
WsPoll_KeepPolling(j) ==
    /\ LoopFree
    /\ ws[j] = "open"
    /\ nt[j].polls < MaxPolls
    /\ IF status[j] = "none"
       THEN nt' = [nt EXCEPT ![j].out = Append(@, JobNotFound), ![j].polls = @ + 1]
       ELSE nt' = [nt EXCEPT ![j].out = IF status[j] # nt[j].last_status
                                        THEN Append(@, StatusMsg(j)) ELSE @,
                             ![j].last_status = status[j],
                             ![j].polls = @ + 1]
    /\ IF status[j] = "none"
       THEN /\ ws' = [ws EXCEPT ![j] = "closed"]
            /\ killReq' = CancelNamed(j)
       ELSE UNCHANGED <<ws, killReq>>
    /\ UNCHANGED <<jobVars, req, pc, cancel_requested, operation_success,
                   error_msg, killed, running, cx, diskVars, scratchVars,
                   retrVars, histVars, rd, batchVars, subVars, api, progress>>

\* routers/websockets.py:30-64,79-85 and 99-133,148-154: one turn of the
\* loop.  The row is read; when it is missing the error is sent and the
\* handler returns; otherwise the status is sent if it differs from
\* last_status, and on a terminal status the handler leaves the loop.  On
\* leaving, the finally block cancels the unfinished task named after the job
WsPoll(j) ==
    /\ LoopFree
    /\ ws[j] = "open"
    /\ nt[j].polls < MaxPolls
    /\ IF status[j] = "none"
       THEN nt' = [nt EXCEPT ![j].out = Append(@, JobNotFound), ![j].polls = @ + 1]
       ELSE nt' = [nt EXCEPT ![j].out = IF status[j] # nt[j].last_status
                                        THEN Append(@, StatusMsg(j)) ELSE @,
                             ![j].last_status = status[j],
                             ![j].polls = @ + 1]
    /\ IF status[j] = "none" \/ status[j] \in Terminal
       THEN /\ ws' = [ws EXCEPT ![j] = "closed"]
            /\ killReq' = CancelNamed(j)
       ELSE UNCHANGED <<ws, killReq>>
    /\ UNCHANGED <<jobVars, req, pc, cancel_requested, operation_success,
                   error_msg, killed, running, cx, diskVars, scratchVars,
                   retrVars, histVars, rd, batchVars, subVars, api, progress>>

\* ------------------------------------------------------ restart, lifespan
\* The process dies and is started again: tasks, handlers and the registry
\* are gone; main.py:45-53 marks every IndexJob found processing as failed
Restart ==
    /\ LoopFree
    /\ restarts < MaxRestarts
    /\ \E j \in JobIds : status[j] # "none"
    /\ restarts' = restarts + 1
    /\ pc' = [j \in JobIds |-> IF Live(j) THEN "crashed" ELSE pc[j]]
    /\ killReq' = [j \in JobIds |-> FALSE]
    /\ running' = {}
    /\ cx' = [j \in JobIds |-> "idle"]
    /\ ws' = [j \in JobIds |-> IF ws[j] = "open" THEN "closed" ELSE ws[j]]
    /\ req' = [r \in JobIds |-> IF req[r].pc = "checked"
                                THEN [req[r] EXCEPT !.pc = "rejected"] ELSE req[r]]
    /\ status' = [j \in JobIds |-> IF kind[j] = "index" /\ status[j] = "processing"
                                   THEN "failed" ELSE status[j]]
    /\ error' = [j \in JobIds |-> IF kind[j] = "index" /\ status[j] = "processing"
                                  THEN ErrRestart ELSE error[j]]
    /\ UNCHANGED <<kind, owner, mode, cancel_requested, operation_success,
                   error_msg, killed, diskVars, scratchVars, retrVars,
                   pendingCancelled, pre, raisedOnCancel, raisedAt, cancelSeen, extVars>>

\* ------------------------------------- a reader of the final pair
\* indexer.py:112-115 as run by process_review_job (utils/routers/jobs.py:
\* 145-151): both files exist, the cache is unpickled, then the index is read.
\* The stretch is synchronous code of the event loop.
ReaderLoadCache ==
    /\ rd.pc = "idle"
    /\ rd' = IF fIndex # Absent /\ Loadable(fCache)
             THEN [pc |-> "mid", cache |-> fCache, index |-> Absent]
             ELSE [pc |-> "dummy", cache |-> Absent, index |-> Absent]
    /\ UNCHANGED <<coreVars, batchVars, subVars, api, nt, progress>>

ReaderReadIndex ==
    /\ rd.pc = "mid"
    /\ rd' = IF Loadable(fIndex)
             THEN [rd EXCEPT !.pc = "done", !.index = fIndex]
             ELSE [pc |-> "dummy", cache |-> Absent, index |-> Absent]
    /\ UNCHANGED <<coreVars, batchVars, subVars, api, nt, progress>>

\* ------------------------------------------ batch classification engine
\* rag_pipeline/process_reviews.py.  An item is a review whose text is
\* non-empty ("text") or empty ("empty"); a result record carries the
\* position of its item as id.
ItemKinds == {"text", "empty"}
ItemSeqs == UNION {[1..n -> ItemKinds] : n \in 1..MaxItems}
MaxBatchCount == (MaxItems + reviews_per_batch - 1) \div reviews_per_batch
Slots == 0..MaxBatchCount

\* process_reviews.py:170-173: the batches, as sequences of item positions
NumBatchesOf(its) == (Len(its) + reviews_per_batch - 1) \div reviews_per_batch
BatchItems(b) ==
    LET first == (b - 1) * reviews_per_batch
        size == IF Len(items) - first < reviews_per_batch
                THEN Len(items) - first ELSE reviews_per_batch
    IN [k \in 1..size |-> first + k]

NAResult(i) == [id |-> i, categories |-> "N/A"]
NoneResult == [id |-> 0, categories |-> "None"]

\* str.strip() on the three kinds of text: a whitespace-only text ("blank")
\* becomes the empty string
strip(t) == IF t = "blank" THEN "empty" ELSE t

\* process_reviews.py:42: review["text"] and review["text"].strip()
HasText(t) == t # "empty" /\ strip(t) # "empty"

\* variant of Texts that keeps every item of the batch
Texts_All(b) == BatchItems(b)

\* process_reviews.py:41-43,53: the non-empty texts of a batch, in order
Texts(b) == SelectSeq(BatchItems(b), LAMBDA i : HasText(items[i]))

\* the reply of llm.classify_reviews_batch: one entry per text, one entry
\* fewer, or an exception, which process_reviews.py:67-74 turns into N/A
\* entries
ClassifyOutcomes == {"ok", "short", "raise"}
classification_result(b, out) ==
    LET n == Len(Texts(b))
    IN CASE out = "ok" -> [k \in 1..n |-> "cat"]
         [] out = "short" -> [k \in 1..(n - 1) |-> "cat"]
         [] out = "raise" -> [k \in 1..n |-> "N/A"]

\* process_reviews.py:38-50,76-86: the pre-sized list of a batch; empty items
\* are N/A, the zip fills the k-th text from the k-th entry of the reply and
\* stops at the shorter list
process_single_batch(b, reply) ==
    LET batch == BatchItems(b)
    IN [k \in 1..Len(batch) |->
          LET i == batch[k]
              pos == Cardinality({x \in 1..k : HasText(items[batch[x]])})
          IN IF ~HasText(items[i]) THEN NAResult(i)
             ELSE IF pos <= Len(reply) THEN [id |-> i, categories |-> reply[pos]]
             ELSE NoneResult]

\* process_reviews.py:127-135: the default list of a batch out of attempts
DefaultResult(b) == [k \in 1..Len(BatchItems(b)) |-> NAResult(BatchItems(b)[k])]

IdleSlot == [pc |-> "idle", batch |-> 0, attempts_left |-> 0, ret |-> "none", result |-> << >>]

\* variant of SemaphoreFree: a semaphore that never blocks
SemaphoreFree_Open == TRUE

\* asyncio.Semaphore(max_concurrent_batches): its holders are the wrappers
\* between process_reviews.py:100-102 and 136-137
SemaphoreFree == status_tracker.num_batches_in_progress < max_concurrent_batches

\* process_reviews.py:109,121,127 with 193 and 208-209: the wrapper returns.
\* A gathered task keeps its value for gather; the value of a retried
\* invocation, unless None, is appended to batch_results
WrapperReturn(s, ret, result) ==
    IF s = 0
    THEN /\ w' = [w EXCEPT ![s] = IdleSlot]
         /\ batch_results' = IF ret = "list"
                             THEN Append(batch_results, [ret |-> ret, result |-> result])
                             ELSE batch_results
         /\ mpc' = "retry"
    ELSE /\ w' = [w EXCEPT ![s] = [@ EXCEPT !.pc = "done", !.ret = ret, !.result = result]]
         /\ UNCHANGED <<batch_results, mpc>>

Tracker(started, in_progress, succeeded, failed) ==
    [num_batches_started |-> status_tracker.num_batches_started + started,
     num_batches_in_progress |-> status_tracker.num_batches_in_progress + in_progress,
     num_batches_succeeded |-> status_tracker.num_batches_succeeded + succeeded,
     num_batches_failed |-> status_tracker.num_batches_failed + failed]

InitBatchIdle(its) ==
    /\ items = its
    /\ w = [s \in Slots |-> IdleSlot]
    /\ retry_queue = << >>
    /\ status_tracker = [num_batches_started |-> 0, num_batches_in_progress |-> 0,
                         num_batches_succeeded |-> 0, num_batches_failed |-> 0]
    /\ batch_results = << >>
    /\ results = << >>
    /\ mpc = "idle"
    /\ exhausted = {}
    /\ catFailed = {}
    /\ sent = {}

\* process_reviews.py:168-193: the batches are cut and one wrapper per batch
\* handed to gather, each with attempts_left = max_attempts
StartRun ==
    /\ mpc = "idle"
    /\ w' = [s \in Slots |->
               IF s \in 1..NumBatchesOf(items)
               THEN [pc |-> "waiting", batch |-> s, attempts_left |-> max_attempts,
                     ret |-> "none", result |-> << >>]
               ELSE IdleSlot]
    /\ mpc' = "gather"
    /\ UNCHANGED <<coreVars, rd, subVars, api, nt, progress, items, retry_queue, status_tracker, batch_results,
                   results, exhausted, catFailed, sent>>

\* process_reviews.py:100-104 with 38-60 and 110-117,122-137: the wrapper
\* takes the semaphore (tasks start in the order gather was given them) and
\* runs process_single_batch up to its await.  A batch without texts returns
\* at once; retrieval (line 55) may raise into the wrapper's except, which
\* sleeps holding the semaphore when attempts are left and returns the
\* default list when none is
WrapperEnter(s, retrieved) ==
    /\ w[s].pc = "waiting"
    /\ SemaphoreFree
    /\ \A t \in 1..(s - 1) : w[t].pc # "waiting"
    /\ LET b == w[s].batch
       IN IF Texts(b) = << >>
          THEN /\ retrieved
               /\ WrapperReturn(s, "list", process_single_batch(b, << >>))
               /\ status_tracker' = Tracker(1, 0, 1, 0)
               /\ UNCHANGED exhausted
          ELSE IF retrieved
          THEN /\ w' = [w EXCEPT ![s].pc = "classifying"]
               /\ status_tracker' = Tracker(1, 1, 0, 0)
               /\ UNCHANGED <<batch_results, mpc, exhausted>>
          ELSE IF w[s].attempts_left > 0
          THEN /\ w' = [w EXCEPT ![s].pc = "sleeping"]
               /\ status_tracker' = Tracker(1, 1, 0, 0)
               /\ UNCHANGED <<batch_results, mpc, exhausted>>
          ELSE /\ WrapperReturn(s, "list", DefaultResult(b))
               /\ status_tracker' = Tracker(1, 0, 0, 1)
               /\ exhausted' = exhausted \cup {b}
    \* history: the texts handed to the retriever (line 55) and then to the
    \* categorizer (lines 63-65)
    /\ sent' = IF Texts(w[s].batch) = << >> THEN sent
                ELSE sent \cup {<<w[s].batch, Texts(w[s].batch)>>}
    /\ UNCHANGED <<coreVars, rd, subVars, api, nt, progress, catFailed, items, retry_queue, results>>

\* process_reviews.py:62-86,107-109,136-137: the categorizer call ends and the
\* wrapper returns the list of the batch
WrapperClassified(s, out) ==
    /\ w[s].pc = "classifying"
    /\ WrapperReturn(s, "list",
                     process_single_batch(w[s].batch, classification_result(w[s].batch, out)))
    /\ status_tracker' = Tracker(0, -1, 1, 0)
    /\ UNCHANGED <<coreVars, rd, subVars, api, nt, progress, items, retry_queue, results, exhausted>>
    \* history: the categorizer call of the batch raised
    /\ catFailed' = IF out = "raise" THEN catFailed \cup {w[s].batch} ELSE catFailed
    /\ UNCHANGED sent

\* variant of WrapperRequeue that does not count the failed attempt
WrapperRequeue_NoCount(s) ==
    /\ w[s].pc = "sleeping"
    /\ retry_queue' = Append(retry_queue, <<w[s].batch, w[s].attempts_left - 1>>)
    /\ WrapperReturn(s, "None", << >>)
    /\ status_tracker' = Tracker(0, -1, 0, 0)
    /\ UNCHANGED <<coreVars, rd, subVars, api, nt, progress, items, results, exhausted, catFailed, sent>>

\* variant of WrapperRequeue that puts the batch back with the attempts it had
WrapperRequeue_SameAttempts(s) ==
    /\ w[s].pc = "sleeping"
    /\ retry_queue' = Append(retry_queue, <<w[s].batch, w[s].attempts_left>>)
    /\ WrapperReturn(s, "None", << >>)
    /\ status_tracker' = Tracker(0, -1, 0, 1)
    /\ UNCHANGED <<coreVars, rd, subVars, api, nt, progress, items, results, exhausted, catFailed, sent>>

\* process_reviews.py:118-121,136-137: after the backoff sleep the batch is
\* put on the retry queue with one attempt fewer and the wrapper returns None
WrapperRequeue(s) ==
    /\ w[s].pc = "sleeping"
    /\ retry_queue' = Append(retry_queue, <<w[s].batch, w[s].attempts_left - 1>>)
    /\ WrapperReturn(s, "None", << >>)
    /\ status_tracker' = Tracker(0, -1, 0, 1)
    /\ UNCHANGED <<coreVars, rd, subVars, api, nt, progress, items, results, exhausted, catFailed, sent>>

\* process_reviews.py:193: gather returns the values of its tasks in the
\* order of the batches
GatherDone ==
    /\ mpc = "gather"
    /\ \A s \in 1..NumBatchesOf(items) : w[s].pc = "done"
    /\ batch_results' = [s \in 1..NumBatchesOf(items) |->
                            [ret |-> w[s].ret, result |-> w[s].result]]
    /\ mpc' = "retry"
    /\ UNCHANGED <<coreVars, rd, subVars, api, nt, progress, items, w, retry_queue, status_tracker, results,
                   exhausted, catFailed, sent>>

\* process_reviews.py:195-207: the head of the retry queue is taken and a
\* wrapper called for it (its entry is the next step; nothing else can run)
RetryGet ==
    /\ mpc = "retry"
    /\ retry_queue # << >>
    /\ w' = [w EXCEPT ![0] = [pc |-> "waiting", batch |-> Head(retry_queue)[1],
                              attempts_left |-> Head(retry_queue)[2],
                              ret |-> "none", result |-> << >>]]
    /\ retry_queue' = Tail(retry_queue)
    /\ mpc' = "retry_run"
    /\ UNCHANGED <<coreVars, rd, subVars, api, nt, progress, items, status_tracker, batch_results, results,
                   exhausted, catFailed, sent>>

\* process_reviews.py:211-214: the lists are concatenated, None values skipped
RECURSIVE Flatten(_)
Flatten(brs) ==
    IF brs = << >> THEN << >>
    ELSE (IF Head(brs).ret = "list" THEN Head(brs).result ELSE << >>)
         \o Flatten(Tail(brs))

\* process_reviews.py:195,211-231: the queue is empty; the results are
\* flattened and the average length computed, review.get raising on an
\* entry that is None
Finish ==
    /\ mpc = "retry"
    /\ retry_queue = << >>
    /\ results' = Flatten(batch_results)
    /\ mpc' = IF \E k \in 1..Len(Flatten(batch_results)) :
                     Flatten(batch_results)[k] = NoneResult
              THEN "raised" ELSE "returned"
    /\ UNCHANGED <<coreVars, rd, subVars, api, nt, progress, items, w, retry_queue, status_tracker,
                   batch_results, exhausted, catFailed, sent>>

\* ------------------------------------------------------- specifications
\* steps of the executor thread: the only ones that can fall between two
\* statements of a synchronous stretch of event-loop code
ThreadStep(j) ==
    \/ AEmbed(j) \/ ABatch(j) \/ AWriteIndex(j) \/ AWriteCache(j)
    \/ (\E t \in BOOLEAN : AThreadRaise(j, t))
    \/ GEmbed(j) \/ GBatch(j) \/ GWriteIndex(j) \/ GWriteCache(j) \/ GThreadRaise(j)

IndexTask(j) ==
    \/ IStart(j) \/ ILookupMissing(j) \/ IRaise(j) \/ ILookup(j)
    \/ (\E b \in BOOLEAN : ACreate(j, b)) \/ AReturn(j)
    \/ ThreadStep(j)
    \/ (\E f \in {"index", "cache"} : GCopyFails(j, f))
    \/ (\E c \in BOOLEAN : GDone(j, c))
    \/ NCreate(j) \/ NRecord(j) \/ (\E o \in SwapOutcomes : RSwap(j, o))
    \/ NotSuccess(j) \/ IComplete(j) \/ IDelete(j)
    \/ (\E msg \in ExcMessages : IExcept(j, msg))
    \/ IFinally(j) \/ IFinStatus(j) \/ IKilled(j)

ReviewTask(j) ==
    \/ VProgress(j) \/ VStep(j) \/ VRaise(j) \/ VComplete(j) \/ VExcept(j)
    \/ VCancelled(j) \/ VFinally(j) \/ VKilled(j)

JobActions(j) ==
    \/ IndexTask(j) \/ ReviewTask(j)
    \/ CancelRead(j) \/ CancelAct(j) \/ CancelWake(j)
    \/ WsConnect(j) \/ WsClose(j)

InitReader ==
    /\ rd = [pc |-> "idle", cache |-> Absent, index |-> Absent]

\* ------------------------------------- OpenAILLM._call_api_with_retry
\* openai_llm.py:138-142: tenacity's stop_after_attempt
api_attempts == 4
\* openai_llm.py:169: the quota below which the wrapper sleeps
quota_threshold == 4000

\* a value of the x-ratelimit-reset-tokens header such as "1m2s" or "2ms": a
\* sequence of number+unit tokens, units in the order m, s, ms
UnitRank(u) == CASE u = "m" -> 1 [] u = "s" -> 2 [] u = "ms" -> 3
HeaderTokens == [n : 1..2, u : {"m", "s", "ms"}]
HeaderValues ==
    {<<t>> : t \in HeaderTokens}
        \cup {h \in [1..2 -> HeaderTokens] : UnitRank(h[2].u) > UnitRank(h[1].u)}

\* the duration a header value denotes, in milliseconds
RECURSIVE Duration(_)
Duration(h) ==
    IF h = << >> THEN 0
    ELSE (CASE h[1].u = "m" -> h[1].n * 60000
            [] h[1].u = "s" -> h[1].n * 1000
            [] h[1].u = "ms" -> h[1].n) + Duration(Tail(h))

\* utils/calc_utils.py time_to_seconds, in milliseconds: re.match of
\* (?:(\d+)m)?(?:(\d+(?:\.\d+)?)s)?(?:(\d+)ms)? at the start of the string.
\* The first group takes the digits and the letter m of a leading token,
\* whether its unit is m or ms; after the m of "ms" the text goes on with
\* "s", where neither of the other groups matches.
time_to_seconds(h) ==
    LET g1 == h # << >> /\ h[1].u \in {"m", "ms"}
        minutes == IF g1 THEN h[1].n * 60000 ELSE 0
        r1 == IF g1 /\ h[1].u = "ms" THEN << >> ELSE IF g1 THEN Tail(h) ELSE h
        g2 == r1 # << >> /\ r1[1].u = "s"
        seconds == IF g2 THEN r1[1].n * 1000 ELSE 0
        r2 == IF g2 THEN Tail(r1) ELSE r1
        g3 == r2 # << >> /\ r2[1].u = "ms"
        milliseconds == IF g3 THEN r2[1].n ELSE 0
    IN minutes + seconds + milliseconds

ApiIdle == [pc |-> "idle", attempt |-> 0, remaining |-> 0, reset |-> << >>, slept |-> 0]

\* openai_llm.py:143-150: the request is sent (first attempt)
ApiCall ==
    /\ api.pc = "idle"
    /\ api' = [api EXCEPT !.pc = "calling", !.attempt = 1]
    /\ UNCHANGED <<coreVars, rd, batchVars, subVars, nt, progress>>

\* openai_llm.py:147-175 under tenacity (138-142): the request raises, or a
\* response arrives with its headers.  An absent reset header is << >>:
\* headers.get gives the default, the integer 1, on which time_to_seconds
\* raises (it is not a string).  An exception is retried until
\* the fourth attempt; otherwise the wrapper sleeps when the remaining quota
\* is below the threshold, and returns
ApiRespond(ok, rem, reset) ==
    /\ api.pc = "calling"
    /\ IF ~ok \/ reset = << >>
       THEN api' = IF api.attempt < api_attempts
                   THEN [api EXCEPT !.attempt = @ + 1]
                   ELSE [api EXCEPT !.pc = "failed"]
       ELSE api' = [api EXCEPT !.pc = IF rem < quota_threshold THEN "sleeping"
                                      ELSE "returned",
                               !.remaining = rem, !.reset = reset]
    /\ UNCHANGED <<coreVars, rd, batchVars, subVars, nt, progress>>

\* openai_llm.py:170-175: asyncio.sleep(reset_time) ends, the response is
\* returned
ApiWake ==
    /\ api.pc = "sleeping"
    /\ api' = [api EXCEPT !.pc = "returned", !.slept = time_to_seconds(api.reset)]
    /\ UNCHANGED <<coreVars, rd, batchVars, subVars, nt, progress>>

\* submissions that pass every validation: the source row and file exist
InitSub(rowOk, fileOk) ==
    /\ src = [row |-> rowOk, file |-> fileOk]
    /\ val = [r \in JobIds |-> [st |-> "none", mode |-> "add"]]
    /\ api = ApiIdle
    /\ nt = [j \in JobIds |-> NtIdle]
    /\ progress = [j \in JobIds |-> 0]

InitExt == InitReader /\ InitBatchIdle(<< >>) /\ InitSub(TRUE, TRUE)

\* One creation request and the life of its job, on a target that has no
\* index yet or has one (left by an earlier completed job).
Init == InitJobs /\ InitScratch /\ (InitNoIndex \/ InitPriorIndex) /\ InitExt

Next ==
    \/ \E k \in Kinds, u \in Owners, m \in Modes : CheckActive(1, k, u, m)
    \/ CreateJob(1)
    \/ \E j \in JobIds : JobActions(j)
    \/ Restart

Spec == Init /\ [][Next]_vars

\* Concurrent creation requests; the tasks of the jobs they create run along
\* their shortest ways to a terminal status.
InitCreate == InitJobs /\ InitScratch /\ InitNoIndex /\ InitExt

NextCreate ==
    \/ \E r \in JobIds, k \in Kinds, u \in Owners, m \in Modes : CheckActive(r, k, u, m)
    \/ \E r \in JobIds : CreateJob(r)
    \/ \E j \in JobIds : IStart(j) \/ ILookupMissing(j) \/ IFinally(j)
    \/ \E j \in JobIds : VProgress(j) \/ VRaise(j) \/ VExcept(j) \/ VFinally(j)

SpecCreate == InitCreate /\ [][NextCreate]_vars

\* utils/common/test.py:193-198: a pair left incomplete by an earlier replace
\* job whose copy of the cache file failed after the record was committed
InitDamagedPair ==
    /\ fIndex = PriorDocs
    /\ fCache = Absent
    /\ rec = [exists |-> TRUE, reviews_included |-> Len(PriorDocs)]

\* The job of Spec on a target whose pair may also be incomplete.
InitReplace ==
    /\ InitJobs /\ InitScratch /\ InitExt
    /\ (InitNoIndex \/ InitPriorIndex \/ InitDamagedPair)

SpecReplace == InitReplace /\ [][Next]_vars

\* The status notifiers of an existing and of an unknown job id, beside one
\* job of either kind; an index job takes its shortest ways to a terminal
\* status.
NextNotify ==
    \/ \E k \in Kinds, u \in Owners, m \in Modes : CheckActive(1, k, u, m)
    \/ CreateJob(1)
    \/ IStart(1) \/ ILookupMissing(1) \/ IFinally(1) \/ IKilled(1)
    \/ ReviewTask(1)
    \/ CancelRead(1) \/ CancelAct(1) \/ CancelWake(1)
    \/ \E j \in JobIds : WsAccept(j) \/ WsPoll(j) \/ WsClose(j)

SpecNotify == Init /\ [][NextNotify]_vars

\* Two jobs, created one after the other, on their shortest ways to a
\* terminal status, and the status notifiers of both.
NextPrefix ==
    \/ \E r \in JobIds, k \in Kinds, u \in Owners, m \in Modes : CheckActive(r, k, u, m)
    \/ \E r \in JobIds : CreateJob(r)
    \/ \E j \in JobIds : IStart(j) \/ ILookupMissing(j) \/ IFinally(j) \/ IKilled(j)
    \/ \E j \in JobIds : VProgress(j) \/ VRaise(j) \/ VExcept(j) \/ VFinally(j) \/ VKilled(j)
    \/ \E j \in JobIds : WsConnect(j) \/ WsClose(j)

SpecPrefix == InitCreate /\ [][NextPrefix]_vars

\* The job of Spec together with a reader of the final pair.
NextIndex ==
    \/ Next
    \/ ReaderLoadCache
    \/ ReaderReadIndex

SpecIndex == Init /\ [][NextIndex]_vars

\* One run of process_reviews_in_batches_async over any input of up to
\* MaxItems items.
InitBatch ==
    /\ InitJobs /\ InitScratch /\ InitNoIndex /\ InitReader /\ InitSub(TRUE, TRUE)
    /\ \E its \in ItemSeqs : InitBatchIdle(its)

NextBatch ==
    \/ StartRun
    \/ \E s \in Slots, r \in BOOLEAN : WrapperEnter(s, r)
    \/ \E s \in Slots, o \in ClassifyOutcomes : WrapperClassified(s, o)
    \/ \E s \in Slots : WrapperRequeue(s)
    \/ GatherDone
    \/ RetryGet
    \/ Finish

SpecBatch == InitBatch /\ [][NextBatch]_vars

\* utils/routers/jobs.py:216-225 with utils/routers/reviews.py:46-54: the
\* review job's task calls classify_and_merge, which starts the run over
\* the job's reviews
ClassifyStart(j) ==
    /\ LoopFree
    /\ kind[j] = "review" /\ pc[j] = "v_classify" /\ ~killReq[j]
    /\ StartRun

\* utils/routers/jobs.py:216-238: classify_and_merge returns, or the run's
\* exception reaches except Exception (jobs.py:299)
ClassifyDone(j) ==
    /\ LoopFree
    /\ kind[j] = "review" /\ pc[j] = "v_classify" /\ ~killReq[j]
    /\ mpc \in {"returned", "raised"}
    /\ pc' = [pc EXCEPT ![j] = IF mpc = "returned" THEN "v_p80" ELSE "v_except"]
    /\ UNCHANGED <<jobVars, req, cancel_requested, operation_success, error_msg,
                   killReq, killed, running, cx, diskVars, scratchVars, retrVars,
                   ws, histVars, extVars>>

\* A classification job whose task runs the batch engine, with the cancel
\* endpoint.
NextClassify ==
    \/ \E u \in Owners, m \in Modes : CheckActive(1, "review", u, m)
    \/ CreateJob(1)
    \/ \E j \in JobIds : VProgress(j) \/ VExcept(j) \/ VFinally(j)
    \/ \E j \in JobIds : ClassifyStart(j) \/ ClassifyDone(j)
    \/ \E j \in JobIds : CancelRead(j) \/ CancelAct(j) \/ CancelWake(j)
    \/ \E s \in Slots, r \in BOOLEAN : WrapperEnter(s, r)
    \/ \E s \in Slots, o \in ClassifyOutcomes : WrapperClassified(s, o)
    \/ \E s \in Slots : WrapperRequeue(s)
    \/ GatherDone
    \/ RetryGet
    \/ Finish

\* the job's input file holds up to ClassifyItems reviews
ClassifyItems == 3

InitClassify ==
    /\ InitJobs /\ InitScratch /\ InitNoIndex /\ InitReader /\ InitSub(TRUE, TRUE)
    /\ \E its \in {s \in ItemSeqs : Len(s) <= ClassifyItems} : InitBatchIdle(its)

SpecClassify == InitClassify /\ [][NextClassify]_vars

\* data_loader.py:86-92: a review's text is a string, "" for a missing
\* cell; it may also hold nothing but whitespace

\* A run of the batch engine over reviews of the three kinds of text.
InitItems ==
    /\ InitJobs /\ InitScratch /\ InitNoIndex /\ InitReader /\ InitSub(TRUE, TRUE)
    /\ \E n \in 1..ClassifyItems : \E its \in [1..n -> ItemKinds \cup {"blank"}] : InitBatchIdle(its)

SpecItems == InitItems /\ [][NextBatch]_vars

\* ======================================================== the claims
\* C1: the Job store never holds two jobs with status pending or processing
\* for the same (owner, kind), under any interleaving of creation requests.
C1_OneActiveJobPerOwnerKind ==
    \A a, b \in JobIds :
        (a # b /\ status[a] \in Active /\ status[b] \in Active)
            => ~(kind[a] = kind[b] /\ owner[a] = owner[b])

\* C2: every change of a job's stored status follows one of the edges
\* pending->processing, processing->completed, processing->failed,
\* processing->cancelled, pending->cancelled (the insertion of the row as
\* pending is not a change).
LegalEdges ==
    {<<"pending", "processing">>, <<"processing", "completed">>,
     <<"processing", "failed">>, <<"processing", "cancelled">>,
     <<"pending", "cancelled">>}

C2_StatusFollowsEdges ==
    [][\A j \in JobIds :
          (status[j] # "none" /\ status'[j] # status[j])
              => <<status[j], status'[j]>> \in LegalEdges]_vars

\* C3: a status update applied to a job that is already completed, failed or
\* cancelled leaves its stored status and error unchanged.
C3_TerminalUpdateIsNoOp ==
    [][\A j \in JobIds :
          status[j] \in Terminal
              => (status'[j] = status[j] /\ error'[j] = error[j])]_vars

\* C4: a job cancelled while pending, before any handle was registered, stays
\* cancelled and its task never executes a step of the build or classification.
C4_PendingCancelRunsNothing ==
    \A j \in pendingCancelled :
        /\ status[j] = "cancelled"
        /\ pc[j] \in {"created", "done", "killed", "crashed"}

\* C5: in replace mode with a prior index present, when the task of a job
\* that failed or was cancelled has ended, the final index and cache files
\* have the content they had before the operation started.
C5_ReplaceFailureKeepsPair ==
    \A j \in JobIds :
        ( /\ branch[j] = "replace"
          /\ pre[j].index # Absent /\ pre[j].cache # Absent
          /\ pc[j] \in {"done", "killed"}
          /\ status[j] \in {"failed", "cancelled"} )
            => (fIndex = pre[j].index /\ fCache = pre[j].cache)

\* C9: after startup recovery no job of either kind whose task was lost in
\* the restart is still in status processing.
C9_NoProcessingAfterRestart ==
    \A j \in JobIds : pc[j] = "crashed" => status[j] # "processing"

\* C10: closing a status notifier never stops the job's task, and a task
\* that has ended leaves its job in a terminal status.
C10_NotifierDoesNotStopJob ==
    \A j \in JobIds :
        /\ ~killed[j]
        /\ pc[j] \in {"done", "killed"} => status[j] \in Terminal

\* C6: the files at the final index and cache paths are both absent or both
\* present with the same document set, in every reachable state, and a
\* reader that loaded the pair holds an index and a cache of one version.
C6_PairConsistent ==
    /\ \/ fIndex = Absent /\ fCache = Absent
       \/ Loadable(fIndex) /\ fIndex = fCache
    /\ rd.pc = "done" => rd.index = rd.cache

\* C7: a run over N items returns exactly N results and the i-th result
\* belongs to the i-th input item, whatever the completion order of the
\* batches and the pattern of failures and retries.
C7_ResultsInInputOrder ==
    mpc = "returned" =>
        /\ Len(results) = Len(items)
        /\ \A i \in 1..Len(results) : results[i].id = i

\* C8: when a batch failed on every attempt, the run returns, every item of
\* that batch has categories N/A, and every text of the other batches has
\* the categories its categorizer call returned.
C8_ExhaustedBatchIsNA ==
    (exhausted # {} /\ mpc \in {"returned", "raised"}) =>
        /\ mpc = "returned"
        /\ \A i \in 1..Len(items) :
              LET b == (i - 1) \div reviews_per_batch + 1
              IN \E k \in 1..Len(results) :
                    /\ results[k].id = i
                    /\ b \in exhausted => results[k].categories = "N/A"
                    /\ (b \notin exhausted /\ items[i] = "text")
                          => results[k].categories \in {"cat", "N/A"}

\* C11: after a successful add of m new documents to an index holding n
\* documents, the IndexRecord counts n + m reviews, the cache holds the n
\* original documents followed by the m new ones, and the index holds one
\* vector per cached document in the same order.
C11_AddAppends ==
    \A j \in JobIds :
        (branch[j] = "add" /\ operation_success[j]) =>
            /\ rec.exists
            /\ rec.reviews_included = Len(pre[j].cache) + Len(NewDocs(j))
            /\ fCache = pre[j].cache \o NewDocs(j)
            /\ fIndex = fCache

C11_Witness ==
    \E j \in JobIds :
        /\ branch[j] = "add" /\ operation_success[j]
        /\ status[j] = "completed"
        /\ Len(pre[j].cache) > 0

\* C12: an index job whose task ended without success after cancellation was
\* requested (the engine returned at a checkpoint, or an exception was raised
\* after the flag was set) is stored as cancelled with the cancellation
\* message, never as failed.
C12_CancelledNeverFailed ==
    \A j \in JobIds :
        ( /\ kind[j] = "index" /\ cancel_requested[j] /\ ~operation_success[j]
          /\ raisedOnCancel[j] # "unflagged"
          /\ pc[j] = "done" /\ cx[j] = "idle" /\ restarts = 0 )
            => (status[j] = "cancelled" /\ error[j] = ErrUser)

\* strings handed to time_to_seconds: up to MaxTokens number+unit tokens in
\* any order, with the unit h among them
ConvertInputs ==
    UNION {[1..k -> [n : 1..2, u : {"h", "m", "s", "ms"}]] : k \in 1..MaxTokens}

\* the strings of the format: minutes, seconds and milliseconds, each at most
\* once and in that order
WellFormed(h) ==
    /\ h # << >>
    /\ \A k \in 1..Len(h) : h[k].u \in {"m", "s", "ms"}
    /\ \A k \in 1..(Len(h) - 1) : UnitRank(h[k].u) < UnitRank(h[k + 1].u)

\* utils/calc_utils.py:13-15: every group of the pattern is optional, so
\* re.match matches (possibly the empty string) at the start of any string
re_match(h) == h \in Seq([n : 1..2, u : {"h", "m", "s", "ms"}])

\* utils/calc_utils.py:9-21: one call of time_to_seconds
Convert(h) ==
    /\ api.pc = "idle"
    /\ api' = IF ~re_match(h)
              THEN [api EXCEPT !.pc = "ValueError", !.reset = h]
              ELSE [api EXCEPT !.pc = "converted", !.reset = h,
                               !.slept = time_to_seconds(h)]
    /\ UNCHANGED <<coreVars, rd, batchVars, subVars, nt, progress>>

\* time_to_seconds applied to every string of ConvertInputs.
SpecConvert == InitCreate /\ [][\E h \in ConvertInputs : Convert(h)]_vars

\* One invocation of _call_api_with_retry over the responses it can get.
NextQuota ==
    \/ ApiCall
    \/ \E ok \in BOOLEAN, rem \in {0, 3999, 4000, 4001},
          reset \in HeaderValues \cup {<< >>} : ApiRespond(ok, rem, reset)
    \/ ApiWake

SpecQuota == InitCreate /\ [][NextQuota]_vars

\* The run of SpecItems under the scheduling of the event loop: a coroutine
\* that is ready is run, a sleep ends, and an awaited call to the retriever or
\* the categorizer returns or raises (the categorizer call is bounded by
\* tenacity's stop_after_attempt).
SpecItemsFair == SpecItems /\ WF_vars(NextBatch)

\* ------------------------------------------------ submission validations
SubmittedModes == Modes \cup {"other"}

\* routers/index.py:108-127 (mode, industry, source row) and
\* routers/jobs.py:38-43 (API key): the validations that precede the
\* active-job check
Validate(r, k, m) ==
    /\ LoopFree
    /\ req[r].pc = "idle" /\ val[r].st = "none"
    /\ k = "review" => m = "add"
    /\ val' = [val EXCEPT ![r] =
                  [st |-> IF k = "index" /\ (m \notin Modes \/ ~src.row)
                          THEN "rejected" ELSE "passed",
                   mode |-> m]]
    /\ req' = [req EXCEPT ![r].kind = k]
    /\ UNCHANGED <<jobVars, taskVars, running, cx, diskVars, scratchVars,
                   retrVars, ws, histVars, rd, batchVars, src, api, nt, progress>>

\* routers/index.py:128-133, routers/jobs.py:45-50
SubmitCheck(r, u) ==
    /\ val[r].st = "passed"
    /\ CheckActive(r, req[r].kind, u, val[r].mode)

\* routers/jobs.py:51-70: the classification endpoint validates the industry
\* and the source row after the active-job check
SubmitRowMissing(r) ==
    /\ LoopFree
    /\ req[r].pc = "checked" /\ req[r].kind = "review" /\ ~src.row
    /\ req' = [req EXCEPT ![r].pc = "rejected"]
    /\ UNCHANGED <<jobVars, taskVars, running, cx, diskVars, scratchVars,
                   retrVars, ws, histVars, extVars>>

\* routers/index.py:135-146, routers/jobs.py:73-90
SubmitCreate(r) ==
    /\ req[r].kind = "review" => src.row
    /\ CreateJob(r)

\* utils/routers/jobs.py:43-99: status processing, rows looked up
SubmitVStart(j) ==
    /\ pc[j] = "created"
    /\ VProgress(j)

\* utils/routers/jobs.py:101-110: the source file is looked for on disk
\* inside the background task
SubmitVFileMissing(j) ==
    /\ pc[j] = "v_lookup" /\ ~src.file
    /\ VRaise(j)

SubmitVFileFound(j) ==
    /\ pc[j] = "v_lookup" /\ src.file
    /\ VProgress(j)

InitSubmit ==
    /\ InitJobs /\ InitScratch /\ InitNoIndex /\ InitReader /\ InitBatchIdle(<< >>)
    /\ \E rowOk \in BOOLEAN, fileOk \in BOOLEAN : InitSub(rowOk, fileOk)

\* Submissions with their validations, and the first steps of the tasks of
\* the jobs they create.
NextSubmit ==
    \/ \E r \in JobIds, k \in Kinds, m \in SubmittedModes : Validate(r, k, m)
    \/ \E r \in JobIds, u \in Owners : SubmitCheck(r, u)
    \/ \E r \in JobIds : SubmitRowMissing(r)
    \/ \E r \in JobIds : SubmitCreate(r)
    \/ \E j \in JobIds : IStart(j)
    \/ \E j \in JobIds : SubmitVStart(j) \/ SubmitVFileMissing(j) \/ SubmitVFileFound(j)
    \/ \E j \in JobIds : VExcept(j) \/ VFinally(j)

SpecSubmit == InitSubmit /\ [][NextSubmit]_vars

\* C14: a submission rejected for a validation reason (invalid mode, missing
\* source file, conflicting active job) never has a job in the job store.
C14_RejectedBeforeCreation ==
    \A r \in JobIds :
        ( /\ val[r].st # "none"
          /\ \/ val[r].mode \notin Modes
             \/ ~src.row \/ ~src.file
             \/ req[r].pc = "rejected" )
            => req[r].pc # "created"

C16_OtherOwnerDoesNotBlock ==
    [][\A r \in JobIds :
          (req[r].pc = "idle" /\ req'[r].pc = "rejected")
              => \E j \in JobIds : /\ kind[j] = req'[r].kind
                                   /\ owner[j] = req'[r].owner
                                   /\ status[j] \in Active]_vars

\* the value a wrapper invocation has just returned: a gathered task keeps
\* it in its slot, a retried invocation appends it to batch_results
ReturnedList(s) ==
    IF s = 0 THEN batch_results'[Len(batch_results')].result ELSE w'[s].result

\* C17: when the categorizer call of a batch fails, the batch is put on the
\* retry queue with one attempt fewer.
C17_CategorizerFailureRequeues ==
    [][\A s \in Slots :
          ( /\ w[s].pc = "classifying" /\ w'[s].pc # "classifying"
            /\ ReturnedList(s) = process_single_batch(w[s].batch,
                                     classification_result(w[s].batch, "raise")) )
              => retry_queue' = Append(retry_queue,
                                       <<w[s].batch, w[s].attempts_left - 1>>)]_vars

\* C18: a batch whose categorizer call failed and that did not run out of
\* attempts ends with the categories of a later, successful attempt, and the
\* status tracker counts the failed attempt.
C18_FailedAttemptIsRetried ==
    (mpc = "returned" /\ exhausted = {}) =>
        \A b \in catFailed :
            /\ status_tracker.num_batches_failed >= 1
            /\ \A k \in 1..Len(results) :
                   (results[k].id \in {BatchItems(b)[x] : x \in 1..Len(BatchItems(b))}
                    /\ items[results[k].id] = "text")
                       => results[k].categories = "cat"

\* C19: in replace mode with a prior index present, a snapshot copy of the
\* current index and cache files exists before either final path is first
\* modified or deleted.
C19_SnapshotBeforeReplace ==
    [][\A j \in JobIds :
          ( /\ branch[j] = "replace"
            /\ pre[j].index # Absent /\ pre[j].cache # Absent
            /\ (fIndex' # fIndex \/ fCache' # fCache) )
              => ( /\ snapshot_dir[j]
                   /\ snapIdx[j] = pre[j].index
                   /\ snapCache[j] = pre[j].cache )]_vars

\* C20: in replace mode the final index file, the final cache file and the
\* IndexRecord are left as they are until the build has written both of its
\* scratch files.
C20_FinalUntouchedUntilBuilt ==
    [][\A j \in JobIds :
          ( /\ kind[j] = "index" /\ mode[j] = "replace" /\ Live(j)
            /\ (fIndex' # fIndex \/ fCache' # fCache \/ rec' # rec) )
              => (Loadable(genIdx[j]) /\ Loadable(genCache[j]))]_vars

C20_Witness ==
    \E j \in JobIds :
        /\ kind[j] = "index" /\ branch[j] = "replace"
        /\ pre[j].index # Absent /\ pre[j].cache # Absent
        /\ fIndex = NewDocs(j) /\ fCache = NewDocs(j)
        /\ rec.reviews_included = Len(NewDocs(j))
        /\ status[j] = "completed"

TargetFiles(j) ==
    IF branch[j] = "add" THEN <<fIndex, fCache>> ELSE <<genIdx[j], genCache[j]>>

\* C22: once cancel_requested is set before a checkpoint of the batch loop,
\* no further batch is added to the index and neither file at the
\* operation's target paths is written.
C22_CheckpointStopsBuild ==
    [][\A j \in JobIds :
          ( /\ cancel_requested[j]
            /\ pc[j] \in {"a_loop", "g_loop", "a_ret_none", "g_ret_none",
                          "a_ret_false", "g_ret_false"} )
              => /\ memIndex'[j] = memIndex[j]
                 /\ TargetFiles(j)' = TargetFiles(j)]_vars

C22_Witness ==
    \E j \in JobIds :
        /\ cancel_requested[j]
        /\ pc[j] \in {"a_ret_none", "g_ret_none"}
        /\ 0 < bi[j] /\ bi[j] < NumBatches

\* C23: when the task of an index job has ended, every scratch directory
\* (index_job_*, temp_index_*) and every snapshot directory the job created
\* has been removed.
C23_ScratchRemovedAtEnd ==
    \A j \in JobIds :
        (kind[j] = "index" /\ pc[j] \in {"done", "killed"})
            => (~temp_dir[j] /\ gen_dir[j] = 0 /\ ~snapshot_dir[j])

\* C24: whenever the background task of a job has ended (normally, by
\* exception, after a cancel request or by task cancellation), the in-memory
\* registry holds no entry for the job.
C24_NoHandleAfterTaskEnd ==
    \A j \in JobIds : pc[j] \in {"done", "killed"} => j \notin running

C24_Witness ==
    \E j \in JobIds :
        /\ pc[j] = "killed" /\ j \notin running
        /\ status[j] = "processing" /\ memDocs[j] # Absent

\* C25: items whose text is empty or whitespace-only are resolved to N/A and
\* are never passed to the retriever or the categorizer; a batch made only of
\* such items triggers no call.
C25_EmptyItemsNeverSent ==
    /\ \A c \in sent :
          /\ \A k \in 1..Len(c[2]) : items[c[2][k]] = "text"
          /\ \E k \in 1..Len(BatchItems(c[1])) : items[BatchItems(c[1])[k]] = "text"
    /\ mpc = "returned" =>
          \A k \in 1..Len(results) :
              items[results[k].id] \in {"empty", "blank"}
                  => results[k].categories = "N/A"

C25_Witness ==
    /\ mpc = "returned"
    /\ Len(items) = 3 /\ items[1] = "blank" /\ items[2] = "text" /\ items[3] = "empty"
    /\ sent = {<<1, <<2>>>>}
    /\ results = <<NAResult(1), [id |-> 2, categories |-> "cat"], NAResult(3)>>

\* wrapper invocations inside the semaphore section: in the categorizer call
\* or in the backoff sleep
InSection == {s \in Slots : w[s].pc \in {"classifying", "sleeping"}}

\* C26: at every moment of a run at most max_concurrent_batches batches are
\* inside the semaphore section, sleeping and re-run batches included, and
\* num_batches_in_progress is their number.
C26_ConcurrencyBounded ==
    /\ Cardinality(InSection) <= max_concurrent_batches
    /\ status_tracker.num_batches_in_progress = Cardinality(InSection)

C26_Witness ==
    /\ Cardinality(InSection) = max_concurrent_batches
    /\ \E s \in Slots : w[s].pc = "sleeping"
    /\ \E s \in Slots : w[s].pc = "waiting"

\* C27: the response is handed back only after a sleep of the duration given
\* by the reset-time header when the remaining quota is below 4000, and
\* without a sleep otherwise.
C27_SleepsForResetTime ==
    api.pc = "returned" =>
        api.slept = IF api.remaining < quota_threshold THEN Duration(api.reset) ELSE 0

\* C28: the status notifier sends a status only when it differs from the
\* last status it sent: no two consecutive notifications carry the same
\* status, however many polls are made.
C28_NoRepeatedStatus ==
    \A j \in JobIds : \A i \in 1..(Len(nt[j].out) - 1) :
        ~( /\ nt[j].out[i].kind = "status" /\ nt[j].out[i + 1].kind = "status"
           /\ nt[j].out[i].status = nt[j].out[i + 1].status )

\* a notifier has sent two notifications and made a poll that sent nothing
C28_Witness ==
    \E j \in JobIds : Len(nt[j].out) >= 2 /\ nt[j].polls > Len(nt[j].out)

\* C29: a poll that observes a terminal status leaves that status as the last
\* notification and ends the handler; a poll that finds the job missing
\* sends the error message, no status, and ends the handler; after either,
\* the notifier polls no more and sends nothing.
C29_StopsAtTerminalOrMissing ==
    [][\A j \in JobIds :
          /\ ( /\ nt[j].out # << >>
               /\ \/ nt[j].out[Len(nt[j].out)].kind = "error"
                  \/ nt[j].out[Len(nt[j].out)].status \in Terminal )
                => nt'[j] = nt[j]
          /\ (nt'[j].polls # nt[j].polls /\ status[j] \in Terminal)
                => /\ nt'[j].out # << >>
                   /\ nt'[j].out[Len(nt'[j].out)] = StatusMsg(j)
                   /\ ws'[j] = "closed"
          /\ (nt'[j].polls # nt[j].polls /\ status[j] = "none")
                => /\ nt'[j].out = Append(nt[j].out, JobNotFound)
                   /\ ws'[j] = "closed"]_vars

\* one notifier has ended on a terminal status after an earlier notification,
\* another on the missing-job error, and the job's status was rewritten after
\* the notifier ended
C29_Witness ==
    /\ \E j \in JobIds : /\ Len(nt[j].out) >= 2
                          /\ nt[j].out[Len(nt[j].out)].status \in Terminal
                          /\ status[j] # nt[j].last_status
    /\ \E j \in JobIds : nt[j].out = <<JobNotFound>> /\ ws[j] = "closed"

\* C30: an index job whose final stored status is cancelled has left the
\* final index file, the final cache file and the index record as they were
\* before it started.
C30_CancelledLeavesIndex ==
    \A j \in JobIds :
        ( /\ kind[j] = "index" /\ status[j] = "cancelled"
          /\ branch[j] # "none" /\ restarts = 0 /\ raisedOnCancel[j] = "none"
          /\ ~Live(j) /\ cx[j] = "idle" )
            => /\ fIndex = pre[j].index /\ fCache = pre[j].cache
               /\ rec = pre[j].rec

\* C31: while embedding or index-build work of an index job is running, the
\* job's handle is in the registry (no cancel request has removed it), so a
\* cancel request finds it.
C31_HandleRegisteredBeforeBuild ==
    \A j \in JobIds :
        (kind[j] = "index" /\ pc[j] \in ThreadPcs /\ j \notin cancelSeen)
            => j \in running

\* C34: every entry of a list returned by process_single_batch is a result
\* record of the item at that position; none is left unset, also when the
\* categorizer's reply is shorter than the texts it was given.
C34_NoEntryLeftUnset ==
    /\ \A s \in Slots :
           w[s].ret = "list" => \A k \in 1..Len(w[s].result) : w[s].result[k] # NoneResult
    /\ \A n \in 1..Len(batch_results) :
           batch_results[n].ret = "list"
               => \A k \in 1..Len(batch_results[n].result) :
                      batch_results[n].result[k] # NoneResult

\* C35: the run ends for every pattern of batch failures: every entry put on
\* the retry queue carries one attempt fewer than the invocation that put it
\* (never fewer than none), and eventually the queue is empty and the
\* function has left its retry loop.
C35_RunTerminates ==
    /\ [][\A s \in Slots :
             (w[s].pc = "sleeping" /\ w'[s].pc # "sleeping")
                 => /\ w[s].attempts_left > 0
                    /\ retry_queue' = Append(retry_queue,
                                             <<w[s].batch, w[s].attempts_left - 1>>)]_vars
    /\ <>(mpc \in {"returned", "raised"} /\ retry_queue = << >>)

\* a run has returned after one of its batches failed at every attempt
C35_Witness ==
    /\ mpc = "returned" /\ exhausted # {}
    /\ status_tracker.num_batches_failed >= max_attempts + 1

\* C37: at every suspension point of a run the batches started are the ones
\* succeeded, failed or in progress, and none is in progress when the run has
\* ended.
C37_TrackerBalanced ==
    /\ status_tracker.num_batches_started
           = status_tracker.num_batches_succeeded + status_tracker.num_batches_failed
               + status_tracker.num_batches_in_progress
    /\ mpc \in {"returned", "raised"} => status_tracker.num_batches_in_progress = 0

\* a run has returned with succeeded and failed attempts counted
C37_Witness ==
    /\ mpc = "returned"
    /\ status_tracker.num_batches_succeeded >= 2
    /\ status_tracker.num_batches_failed >= 2

\* C38: time_to_seconds gives a string of the format (minutes, seconds,
\* milliseconds) its value, and raises ValueError for any other string.
C38_ConvertsOrRaises ==
    api.pc \in {"converted", "ValueError"} =>
        IF WellFormed(api.reset)
        THEN api.pc = "converted" /\ api.slept = Duration(api.reset)
        ELSE api.pc = "ValueError"

\* C32: whenever no index job is running, the record's reviews_included is
\* the number of documents in the cache file (here: after jobs none of which
\* was ended by task cancellation or failed inside the build thread, and
\* without a restart).
C32_RecordMatchesCache ==
    ( /\ \A j \in JobIds : ~Live(j) /\ ~killed[j] /\ raisedAt[j].at \notin ThreadPcs
      /\ rec.exists /\ restarts = 0 )
        => /\ Loadable(fCache)
           /\ rec.reviews_included = Len(fCache)

\* C33: the end of the status notifier of job j (closed or disconnected)
\* leaves the task of every other job as it was: no cancellation is requested
\* for it (here: for a job j that has ended before its notifier does).
C33_CloseLeavesOtherJobs ==
    [][\A j \in JobIds :
          ( /\ ws[j] = "open" /\ ws'[j] = "closed" /\ restarts' = restarts
            /\ status[j] \in Terminal /\ ~Live(j) )
              => \A k \in JobIds \ {j} : killReq'[k] = killReq[k]]_vars

\* C36: a classification job that has reached completed has the stored
\* progress 100.
C36_CompletedHasFullProgress ==
    \A j \in JobIds :
        (kind[j] = "review" /\ status[j] = "completed") => progress[j] = 100

\* C13: once cancel_requested is set on the handle of a classification job
\* that is classifying, the engine starts no further batch for it.
C13_NoBatchAfterCancel ==
    [][\A j \in JobIds :
          (kind[j] = "review" /\ cancel_requested[j] /\ pc[j] = "v_classify")
              => status_tracker'.num_batches_started
                     = status_tracker.num_batches_started]_vars

====
